---- MODULE Spec2Model ----
(***************************************************************************)
(* The class-file decoder of src/src/classfile.rs: the bounds-checked      *)
(* Reader, the constant-pool decoder, the attribute decoder and            *)
(* ClassFile::parse.                                                       *)
(*                                                                         *)
(* A byte is an integer in 0..255.  A slice &[u8] is the record            *)
(* [b |-> bytes, off |-> offset of b[1] in the buffer given to parse]: a   *)
(* Rust slice is a pointer and a length, and off is the pointer.  A u32 is *)
(* the record [hi |-> upper 16 bits, lo |-> lower 16 bits], a u64 the      *)
(* sequence of its four 16-bit digits, most significant first, and an i64  *)
(* the record [negative |-> sign, magnitude |-> the four 16-bit digits of  *)
(* its absolute value, most significant first].  Result<T, E>              *)
(* is [ok |-> TRUE, v |-> value, r |-> reader] or                          *)
(* [ok |-> FALSE, e |-> error, r |-> reader]; the reader is the &mut Reader*)
(* as the call leaves it.                                                  *)
(*                                                                         *)
(* Every Reader carries a history record gh that no decision of the        *)
(* decoder reads:                                                          *)
(*   hw     one more than the highest buffer offset read so far            *)
(*   failed some operation has already returned Err                        *)
(*   first  the first error returned                                       *)
(*   late   a Reader read was started after an operation had failed       *)
(*   fault  a slice index was out of range or u8/usize arithmetic          *)
(*          overflowed (a panic)                                           *)
(*   win    the payload windows [lo, hi) of the attributes being decoded,  *)
(*          innermost last                                                 *)
(*   outside  a byte outside the innermost window was read while an        *)
(*          attribute body was being decoded                               *)
(*   log    for each attribute decoded, in the order they were finished:   *)
(*          the offset of its name_index, its declared length, the offset  *)
(*          the enclosing reader went on from, and its nesting depth       *)
(*   names  the name_index values read by parse_attributes, in order       *)
(*   looked the indexes looked up in the constant pool during the decode   *)
(*   rec    the call stack, outermost first, of the calls of               *)
(*          parse_attributes and parse_element_value that have not         *)
(*          returned, and between them the descents: the places where the  *)
(*          decoder calls back into a function already running ("Code",    *)
(*          "Record", "ElementValue"); each with the offset it started at  *)
(*   deep   the largest number of descents open at once                    *)
(*   stray  a function was entered while already running, with no descent  *)
(*          of the three kinds since it was entered before                 *)
(*   stalled  a descent started at an offset no greater than the one       *)
(*          around it                                                      *)
(*   at     the offset the last read of one byte or more started at        *)
(*   back   a read started at a lower offset than a read before it         *)
(*   turns  the number of iterations of counted loops that have finished   *)
(*   idle   an iteration finished at the offset it started at              *)
(***************************************************************************)
EXTENDS Integers, Sequences, FiniteSets, TLC

VARIABLES cur, last, inp, bytes, outcome, lookup, calls

vars == <<cur, last, inp, bytes, outcome, lookup, calls>>

(***************************************************************************)
(* Values                                                                  *)
(***************************************************************************)
Slice(b, off) == [b |-> b, off |-> off]

U32(hi, lo) == [hi |-> hi, lo |-> lo]

\* The two bytes taken little-endian.
u16_from_le_bytes(b0, b1) == b1 * 256 + b0

u16_from_be_bytes(b0, b1) == b0 * 256 + b1

u32_from_be_bytes(b0, b1, b2, b3) == U32(b0 * 256 + b1, b2 * 256 + b3)

\* `x as usize` for a u32 x.  Values of 2^31 and more are all represented by
\* 2147483647: the decoder only ever compares such a value with remaining(),
\* which is at most the buffer length.
as_usize(x) == IF x.hi >= 32768 THEN 2147483647 ELSE x.hi * 65536 + x.lo

\* `x as i32` for a u32 x (two's complement).
as_i32(x) == IF x.hi >= 32768 THEN (x.hi - 65536) * 65536 + x.lo ELSE x.hi * 65536 + x.lo

\* (low << 32) | high: the words the wrong way round.
shl32_or_low_first(high, low) == <<low.hi, low.lo, high.hi, high.lo>>

\* (high << 32) | low, for high and low that were u32 (`as u64`).
shl32_or(high, low) == <<high.hi, high.lo, low.hi, low.lo>>

\* 2^64 - x for a u64 x > 0: every digit complemented, and one added.
neg_u64(x) ==
  LET d4 == (65535 - x[4]) + 1
      d3 == (65535 - x[3]) + d4 \div 65536
      d2 == (65535 - x[2]) + d3 \div 65536
      d1 == (65535 - x[1]) + d2 \div 65536
  IN <<d1 % 65536, d2 % 65536, d3 % 65536, d4 % 65536>>

\* `x as i64` for a u64 x (two's complement).
as_i64(x) ==
  IF x[1] >= 32768 THEN [negative |-> TRUE, magnitude |-> neg_u64(x)]
  ELSE [negative |-> FALSE, magnitude |-> x]

Ok(v, r) == [ok |-> TRUE, v |-> v, r |-> r]

\* ClassFileError and a panic (not a ClassFileError: the unwinding of a
\* runtime fault).
UnexpectedEof == [kind |-> "UnexpectedEof"]
InvalidMagic(m) == [kind |-> "InvalidMagic", magic |-> m]
InvalidConstantPoolIndex(i) == [kind |-> "InvalidConstantPoolIndex", index |-> i]
InvalidConstantPoolTag(t) == [kind |-> "InvalidConstantPoolTag", tag |-> t]
InvalidUtf8 == [kind |-> "InvalidUtf8"]
InvalidAttribute(name) == [kind |-> "InvalidAttribute", name |-> name]
Panic == [kind |-> "panic"]
NoError == [kind |-> "none"]

ErrorKinds ==
  {"UnexpectedEof", "InvalidMagic", "InvalidConstantPoolIndex",
   "InvalidConstantPoolTag", "InvalidUtf8", "InvalidAttribute"}

(***************************************************************************)
(* History                                                                 *)
(***************************************************************************)
Gh0 ==
  [hw |-> 0, failed |-> FALSE, first |-> NoError, late |-> FALSE, fault |-> FALSE,
   win |-> <<>>, outside |-> FALSE, log |-> <<>>, names |-> <<>>, looked |-> <<>>,
   rec |-> <<>>, deep |-> 0, stray |-> FALSE, stalled |-> FALSE,
   at |-> 0, back |-> FALSE, turns |-> 0, idle |-> FALSE]

GhEnter(g) == [g EXCEPT !.late = g.late \/ g.failed]

GhFail(g, e) ==
  [g EXCEPT !.failed = TRUE,
            !.first = IF g.failed THEN g.first ELSE e,
            !.fault = g.fault \/ e = Panic]

GhRead(g, data, pos, n) ==
  IF n = 0 THEN g
  ELSE [g EXCEPT !.hw = IF data.off + pos + n > g.hw THEN data.off + pos + n ELSE g.hw,
                 !.at = data.off + pos,
                 !.back = g.back \/ data.off + pos < g.at,
                 !.outside = \/ g.outside
                             \/ /\ g.win # <<>>
                                /\ \/ data.off + pos < g.win[Len(g.win)].lo
                                   \/ data.off + pos + n > g.win[Len(g.win)].hi]

\* The body of an attribute with `length` payload bytes at offset lo starts.
GhOpen(g, lo, length) == [g EXCEPT !.win = Append(g.win, [lo |-> lo, hi |-> lo + length])]

\* The attribute whose name_index was at offset start has been decoded and
\* the enclosing reader goes on from offset next.
GhClose(g, start, next) ==
  [g EXCEPT !.win = SubSeq(g.win, 1, Len(g.win) - 1),
            !.log = Append(g.log,
                      [start |-> start,
                       length |-> g.win[Len(g.win)].hi - g.win[Len(g.win)].lo,
                       next |-> next, depth |-> Len(g.win)])]

\* parse_attributes has read the name_index of an attribute.
GhName(g, index) == [g EXCEPT !.names = Append(g.names, index)]

\* cp.get_utf8(index) is called.
GhLookup(g, index) == [g EXCEPT !.looked = Append(g.looked, index)]

Descents == {"Code", "Record", "ElementValue"}

\* The places of the stack rec that hold a descent.
Open(rec) == {k \in 1..Len(rec) : rec[k].fn \in Descents}

\* The function fn is entered at offset at.
GhCall(g, fn, at) ==
  [g EXCEPT !.rec = Append(g.rec, [fn |-> fn, at |-> at]),
            !.stray = \/ g.stray
                      \/ \E k \in 1..Len(g.rec) :
                           /\ g.rec[k].fn = fn
                           /\ \A j \in (k + 1)..Len(g.rec) : g.rec[j].fn # fn
                           /\ \A j \in (k + 1)..Len(g.rec) : g.rec[j].fn \notin Descents]

\* The decoder, at offset at, is about to call back into a running function.
GhDescend(g, site, at) ==
  [g EXCEPT !.rec = Append(g.rec, [fn |-> site, at |-> at]),
            !.deep = IF Cardinality(Open(g.rec)) + 1 > g.deep
                     THEN Cardinality(Open(g.rec)) + 1 ELSE g.deep,
            !.stalled = g.stalled \/ \E k \in Open(g.rec) : g.rec[k].at >= at]

\* The innermost call or descent is over.
GhReturn(g) == [g EXCEPT !.rec = SubSeq(g.rec, 1, Len(g.rec) - 1)]

\* An iteration of a counted loop that started at offset from is over at
\* offset to.
GhTurn(g, from, to) == [g EXCEPT !.turns = g.turns + 1, !.idle = g.idle \/ to <= from]

\* Err(e), recorded in the history of the reader r.
Err(e, r) == [ok |-> FALSE, e |-> e, r |-> [r EXCEPT !.gh = GhFail(r.gh, e)]]

\* The reader `outer` continues after `inner` (a sub-reader, or a pool
\* lookup) has run: only the history moves.
Resume(outer, g) == [outer EXCEPT !.gh = g]

\* `let x = expr;` and the rest of the function, written
\* Bind([x \in {expr} |-> rest]): the value of rest for the one value of expr.
Bind(f) == f[CHOOSE x \in DOMAIN f : TRUE]

(***************************************************************************)
(* Reader                                                                  *)
(***************************************************************************)
Reader_new(data, g) == [data |-> data, pos |-> 0, gh |-> g]

\* The reader r as a function called with it starts, as the decoder descends
\* with it, and as the call or the descent is over.
Enter(r, fn) == [r EXCEPT !.gh = GhCall(r.gh, fn, r.data.off + r.pos)]

Descend(r, site) == [r EXCEPT !.gh = GhDescend(r.gh, site, r.data.off + r.pos)]

Leave(r) == [r EXCEPT !.gh = GhReturn(r.gh)]

\* The reader after an iteration of a loop, before being where it started.
Turn(before, after) ==
  [after EXCEPT !.gh = GhTurn(after.gh, before.data.off + before.pos,
                              after.data.off + after.pos)]

remaining(r) == IF Len(r.data.b) >= r.pos THEN Len(r.data.b) - r.pos ELSE 0

\* self.data[lo .. lo + n] in bounds?  An index past the end panics.
InBounds(r, lo, n) == lo + n <= Len(r.data.b)

read_u1(r) ==
  LET s == [r EXCEPT !.gh = GhEnter(r.gh)] IN
  IF remaining(s) < 1 THEN Err(UnexpectedEof, s)
  ELSE IF ~InBounds(s, s.pos, 1) THEN Err(Panic, s)
  ELSE Ok(s.data.b[s.pos + 1],
          [s EXCEPT !.pos = s.pos + 1, !.gh = GhRead(s.gh, s.data, s.pos, 1)])

\* read_u2 with the guard of read_u1.
read_u2_guard_one(r) ==
  LET s == [r EXCEPT !.gh = GhEnter(r.gh)] IN
  IF remaining(s) < 1 THEN Err(UnexpectedEof, s)
  ELSE IF ~InBounds(s, s.pos, 2) THEN Err(Panic, s)
  ELSE Ok(u16_from_be_bytes(s.data.b[s.pos + 1], s.data.b[s.pos + 2]),
          [s EXCEPT !.pos = s.pos + 2, !.gh = GhRead(s.gh, s.data, s.pos, 2)])

read_u2(r) ==
  LET s == [r EXCEPT !.gh = GhEnter(r.gh)] IN
  IF remaining(s) < 2 THEN Err(UnexpectedEof, s)
  ELSE IF ~InBounds(s, s.pos, 2) THEN Err(Panic, s)
  ELSE Ok(u16_from_be_bytes(s.data.b[s.pos + 1], s.data.b[s.pos + 2]),
          [s EXCEPT !.pos = s.pos + 2, !.gh = GhRead(s.gh, s.data, s.pos, 2)])

\* read_u4 if it took the bytes that are left before finding them too few.
read_u4_drains_on_eof(r) ==
  LET s == [r EXCEPT !.gh = GhEnter(r.gh)] IN
  IF remaining(s) < 4 THEN Err(UnexpectedEof, [s EXCEPT !.pos = Len(s.data.b)])
  ELSE IF ~InBounds(s, s.pos, 4) THEN Err(Panic, s)
  ELSE Ok(u32_from_be_bytes(s.data.b[s.pos + 1], s.data.b[s.pos + 2],
                            s.data.b[s.pos + 3], s.data.b[s.pos + 4]),
          [s EXCEPT !.pos = s.pos + 4, !.gh = GhRead(s.gh, s.data, s.pos, 4)])

read_u4(r) ==
  LET s == [r EXCEPT !.gh = GhEnter(r.gh)] IN
  IF remaining(s) < 4 THEN Err(UnexpectedEof, s)
  ELSE IF ~InBounds(s, s.pos, 4) THEN Err(Panic, s)
  ELSE Ok(u32_from_be_bytes(s.data.b[s.pos + 1], s.data.b[s.pos + 2],
                            s.data.b[s.pos + 3], s.data.b[s.pos + 4]),
          [s EXCEPT !.pos = s.pos + 4, !.gh = GhRead(s.gh, s.data, s.pos, 4)])

\* The slice returned borrows from the same buffer: its off is absolute.
read_bytes(r, len) ==
  LET s == [r EXCEPT !.gh = GhEnter(r.gh)] IN
  IF remaining(s) < len THEN Err(UnexpectedEof, s)
  ELSE IF ~InBounds(s, s.pos, len) THEN Err(Panic, s)
  ELSE Ok(Slice(SubSeq(s.data.b, s.pos + 1, s.pos + len), s.data.off + s.pos),
          [s EXCEPT !.pos = s.pos + len, !.gh = GhRead(s.gh, s.data, s.pos, len)])

(***************************************************************************)
(* String::from_utf8_lossy: a string is its sequence of code points.  Each *)
(* maximal invalid byte sequence becomes one U+FFFD (65533).               *)
(***************************************************************************)
RECURSIVE from_utf8_lossy_from(_, _, _)
from_utf8_lossy_from(b, i, acc) ==
  IF i > Len(b) THEN acc
  ELSE
    LET x == b[i]
        at(k) == IF i + k <= Len(b) THEN b[i + k] ELSE -1
        cont(k) == at(k) >= 128 /\ at(k) <= 191
        second3 == CASE x = 224 -> at(1) >= 160 /\ at(1) <= 191
                     [] x = 237 -> at(1) >= 128 /\ at(1) <= 159
                     [] OTHER -> cont(1)
        second4 == CASE x = 240 -> at(1) >= 144 /\ at(1) <= 191
                     [] x = 244 -> at(1) >= 128 /\ at(1) <= 143
                     [] OTHER -> cont(1)
    IN
    IF x < 128 THEN from_utf8_lossy_from(b, i + 1, Append(acc, x))
    ELSE IF x >= 194 /\ x <= 223 THEN
      IF cont(1)
      THEN from_utf8_lossy_from(b, i + 2, Append(acc, (x - 192) * 64 + (at(1) - 128)))
      ELSE from_utf8_lossy_from(b, i + 1, Append(acc, 65533))
    ELSE IF x >= 224 /\ x <= 239 THEN
      IF ~second3 THEN from_utf8_lossy_from(b, i + 1, Append(acc, 65533))
      ELSE IF ~cont(2) THEN from_utf8_lossy_from(b, i + 2, Append(acc, 65533))
      ELSE from_utf8_lossy_from(b, i + 3,
             Append(acc, (x - 224) * 4096 + (at(1) - 128) * 64 + (at(2) - 128)))
    ELSE IF x >= 240 /\ x <= 244 THEN
      IF ~second4 THEN from_utf8_lossy_from(b, i + 1, Append(acc, 65533))
      ELSE IF ~cont(2) THEN from_utf8_lossy_from(b, i + 2, Append(acc, 65533))
      ELSE IF ~cont(3) THEN from_utf8_lossy_from(b, i + 3, Append(acc, 65533))
      ELSE from_utf8_lossy_from(b, i + 4,
             Append(acc, (x - 240) * 262144 + (at(1) - 128) * 4096
                         + (at(2) - 128) * 64 + (at(3) - 128)))
    ELSE from_utf8_lossy_from(b, i + 1, Append(acc, 65533))

from_utf8_lossy(b) == from_utf8_lossy_from(b, 1, <<>>)

(***************************************************************************)
(* ConstantPool: entries is the Vec<Option<CpInfo>>; the element at Rust   *)
(* index i is entries[i + 1].                                              *)
(***************************************************************************)
None == [some |-> FALSE]
Some(x) == [some |-> TRUE, x |-> x]

OkV(v) == [ok |-> TRUE, v |-> v]
ErrV(e) == [ok |-> FALSE, e |-> e]

\* The lookup taking the index as one-based.
entries_get_one_based(entries, index) ==
  IF index <= Len(entries) THEN entries[index] ELSE None

\* Vec::get(index).and_then(|e| e.as_ref())
entries_get(entries, index) == IF index < Len(entries) THEN entries[index + 1] ELSE None

get(cp, index) ==
  IF index = 0 THEN ErrV(InvalidConstantPoolIndex(index))
  ELSE LET e == entries_get(cp.entries, index) IN
       IF e.some THEN OkV(e.x) ELSE ErrV(InvalidConstantPoolIndex(index))

get_utf8(cp, index) ==
  LET g == get(cp, index) IN
  IF ~g.ok THEN g
  ELSE IF g.v.tag = "Utf8" THEN OkV(g.v.s)
  ELSE ErrV(InvalidConstantPoolIndex(index))

\* cp.get_utf8(index)? inside the decoder: r is the reader of the caller,
\* which the lookup does not move.
lookup_utf8(cp, index, r) ==
  Bind([name \in {get_utf8(cp, index)} |->
    IF ~name.ok THEN Err(name.e, Resume(r, GhLookup(r.gh, index)))
    ELSE Ok(name.v, Resume(r, GhLookup(r.gh, index)))])

(***************************************************************************)
(* parse_constant_pool                                                     *)
(***************************************************************************)
\* { a: r.read_u2()?, b: r.read_u2()? }: the fields are read in order.
read_u2_u2(r) ==
  Bind([a \in {read_u2(r)} |-> IF ~a.ok THEN a ELSE
  Bind([b \in {read_u2(a.r)} |-> IF ~b.ok THEN b ELSE
  Ok(<<a.v, b.v>>, b.r)])])

\* The default arm reporting the tag as a pool index.
invalid_tag_as_index(tag, r) == Err(InvalidConstantPoolIndex(tag), r)

\* _ => return Err(ClassFileError::InvalidConstantPoolTag(tag))
invalid_tag(tag, r) == Err(InvalidConstantPoolTag(tag), r)

\* The Utf8 entry refused when its bytes needed a replacement character.
utf8_entry_strict(b, r) ==
  IF \E k \in 1..Len(from_utf8_lossy(b)) : from_utf8_lossy(b)[k] = 65533
  THEN Err(InvalidUtf8, r)
  ELSE Ok([tag |-> "Utf8", s |-> from_utf8_lossy(b)], r)

\* CpInfo::Utf8(String::from_utf8_lossy(bytes).into_owned())
utf8_entry(b, r) == Ok([tag |-> "Utf8", s |-> from_utf8_lossy(b)], r)

\* The arms of `match tag` that yield an entry (all but 5 and 6).
cp_entry(tag, r) ==
  CASE tag = 1 ->
         Bind([len \in {read_u2(r)} |-> IF ~len.ok THEN len ELSE
         Bind([bs \in {read_bytes(len.r, len.v)} |-> IF ~bs.ok THEN bs ELSE
         utf8_entry(bs.v.b, bs.r)])])
    [] tag = 3 ->
         Bind([v \in {read_u4(r)} |-> IF ~v.ok THEN v ELSE
         Ok([tag |-> "Integer", value |-> as_i32(v.v)], v.r)])
    [] tag = 4 ->
         Bind([bits \in {read_u4(r)} |-> IF ~bits.ok THEN bits ELSE
         Ok([tag |-> "Float", bits |-> bits.v], bits.r)])
    [] tag = 7 ->
         Bind([n \in {read_u2(r)} |-> IF ~n.ok THEN n ELSE
         Ok([tag |-> "Class", name_index |-> n.v], n.r)])
    [] tag = 8 ->
         Bind([n \in {read_u2(r)} |-> IF ~n.ok THEN n ELSE
         Ok([tag |-> "String", string_index |-> n.v], n.r)])
    [] tag = 9 ->
         Bind([p \in {read_u2_u2(r)} |-> IF ~p.ok THEN p ELSE
         Ok([tag |-> "Fieldref", class_index |-> p.v[1], name_and_type_index |-> p.v[2]], p.r)])
    [] tag = 10 ->
         Bind([p \in {read_u2_u2(r)} |-> IF ~p.ok THEN p ELSE
         Ok([tag |-> "Methodref", class_index |-> p.v[1], name_and_type_index |-> p.v[2]], p.r)])
    [] tag = 11 ->
         Bind([p \in {read_u2_u2(r)} |-> IF ~p.ok THEN p ELSE
         Ok([tag |-> "InterfaceMethodref", class_index |-> p.v[1],
             name_and_type_index |-> p.v[2]], p.r)])
    [] tag = 12 ->
         Bind([p \in {read_u2_u2(r)} |-> IF ~p.ok THEN p ELSE
         Ok([tag |-> "NameAndType", name_index |-> p.v[1], descriptor_index |-> p.v[2]], p.r)])
    [] tag = 15 ->
         Bind([k \in {read_u1(r)} |-> IF ~k.ok THEN k ELSE
         Bind([i \in {read_u2(k.r)} |-> IF ~i.ok THEN i ELSE
         Ok([tag |-> "MethodHandle", reference_kind |-> k.v, reference_index |-> i.v], i.r)])])
    [] tag = 16 ->
         Bind([n \in {read_u2(r)} |-> IF ~n.ok THEN n ELSE
         Ok([tag |-> "MethodType", descriptor_index |-> n.v], n.r)])
    [] tag = 17 ->
         Bind([p \in {read_u2_u2(r)} |-> IF ~p.ok THEN p ELSE
         Ok([tag |-> "Dynamic", bootstrap_method_attr_index |-> p.v[1],
             name_and_type_index |-> p.v[2]], p.r)])
    [] tag = 18 ->
         Bind([p \in {read_u2_u2(r)} |-> IF ~p.ok THEN p ELSE
         Ok([tag |-> "InvokeDynamic", bootstrap_method_attr_index |-> p.v[1],
             name_and_type_index |-> p.v[2]], p.r)])
    [] tag = 19 ->
         Bind([n \in {read_u2(r)} |-> IF ~n.ok THEN n ELSE
         Ok([tag |-> "Module", name_index |-> n.v], n.r)])
    [] tag = 20 ->
         Bind([n \in {read_u2(r)} |-> IF ~n.ok THEN n ELSE
         Ok([tag |-> "Package", name_index |-> n.v], n.r)])
    [] OTHER -> invalid_tag(tag, r)

\* The `while i < count` loop.  A Double keeps the two u4 halves of its bits
\* (high first).
RECURSIVE parse_constant_pool_loop(_, _, _, _)

\* The loop without `entries.push(None)` after a Long or Double.
parse_constant_pool_loop_no_hole(r, count, i, entries) ==
  IF ~(i < count) THEN Ok([entries |-> entries], r)
  ELSE
    Bind([tag \in {read_u1(r)} |-> IF ~tag.ok THEN tag ELSE
    IF tag.v = 5 THEN
      Bind([high \in {read_u4(tag.r)} |-> IF ~high.ok THEN high ELSE
      Bind([low \in {read_u4(high.r)} |-> IF ~low.ok THEN low ELSE
      parse_constant_pool_loop(Turn(r, low.r), count, i + 2,
        entries \o <<Some([tag |-> "Long", value |-> as_i64(shl32_or(high.v, low.v))])>>)])])
    ELSE IF tag.v = 6 THEN
      Bind([high \in {read_u4(tag.r)} |-> IF ~high.ok THEN high ELSE
      Bind([low \in {read_u4(high.r)} |-> IF ~low.ok THEN low ELSE
      parse_constant_pool_loop(Turn(r, low.r), count, i + 2,
        entries \o <<Some([tag |-> "Double", high |-> high.v, low |-> low.v])>>)])])
    ELSE
      Bind([entry \in {cp_entry(tag.v, tag.r)} |-> IF ~entry.ok THEN entry ELSE
      parse_constant_pool_loop(Turn(r, entry.r), count, i + 1, Append(entries, Some(entry.v)))])])

parse_constant_pool_loop(r, count, i, entries) ==
  IF ~(i < count) THEN Ok([entries |-> entries], r)
  ELSE
    Bind([tag \in {read_u1(r)} |-> IF ~tag.ok THEN tag ELSE
    IF tag.v = 5 THEN
      Bind([high \in {read_u4(tag.r)} |-> IF ~high.ok THEN high ELSE
      Bind([low \in {read_u4(high.r)} |-> IF ~low.ok THEN low ELSE
      parse_constant_pool_loop(Turn(r, low.r), count, i + 2,
        entries \o <<Some([tag |-> "Long", value |-> as_i64(shl32_or(high.v, low.v))]),
                      None>>)])])
    ELSE IF tag.v = 6 THEN
      Bind([high \in {read_u4(tag.r)} |-> IF ~high.ok THEN high ELSE
      Bind([low \in {read_u4(high.r)} |-> IF ~low.ok THEN low ELSE
      parse_constant_pool_loop(Turn(r, low.r), count, i + 2,
        entries \o <<Some([tag |-> "Double", high |-> high.v, low |-> low.v]), None>>)])])
    ELSE
      Bind([entry \in {cp_entry(tag.v, tag.r)} |-> IF ~entry.ok THEN entry ELSE
      parse_constant_pool_loop(Turn(r, entry.r), count, i + 1, Append(entries, Some(entry.v)))])])

parse_constant_pool(r) ==
  Bind([count \in {read_u2(r)} |-> IF ~count.ok THEN count ELSE
  parse_constant_pool_loop(count.r, count.v, 1, <<None>>)])

(***************************************************************************)
(* String literals: the code points of the names `match name.as_str()`     *)
(* compares with.                                                          *)
(***************************************************************************)
KnownName ==
  [ConstantValue |-> <<67, 111, 110, 115, 116, 97, 110, 116, 86, 97, 108, 117, 101>>,
   Code |-> <<67, 111, 100, 101>>,
   StackMapTable |-> <<83, 116, 97, 99, 107, 77, 97, 112, 84, 97, 98, 108, 101>>,
   Exceptions |-> <<69, 120, 99, 101, 112, 116, 105, 111, 110, 115>>,
   InnerClasses |-> <<73, 110, 110, 101, 114, 67, 108, 97, 115, 115, 101, 115>>,
   EnclosingMethod |-> <<69, 110, 99, 108, 111, 115, 105, 110, 103, 77, 101, 116, 104, 111, 100>>,
   Synthetic |-> <<83, 121, 110, 116, 104, 101, 116, 105, 99>>,
   Signature |-> <<83, 105, 103, 110, 97, 116, 117, 114, 101>>,
   SourceFile |-> <<83, 111, 117, 114, 99, 101, 70, 105, 108, 101>>,
   SourceDebugExtension |-> <<83, 111, 117, 114, 99, 101, 68, 101, 98, 117, 103, 69, 120, 116, 101, 110, 115, 105, 111, 110>>,
   LineNumberTable |-> <<76, 105, 110, 101, 78, 117, 109, 98, 101, 114, 84, 97, 98, 108, 101>>,
   LocalVariableTable |-> <<76, 111, 99, 97, 108, 86, 97, 114, 105, 97, 98, 108, 101, 84, 97, 98, 108, 101>>,
   LocalVariableTypeTable |-> <<76, 111, 99, 97, 108, 86, 97, 114, 105, 97, 98, 108, 101, 84, 121, 112, 101, 84, 97, 98, 108, 101>>,
   Deprecated |-> <<68, 101, 112, 114, 101, 99, 97, 116, 101, 100>>,
   RuntimeVisibleAnnotations |-> <<82, 117, 110, 116, 105, 109, 101, 86, 105, 115, 105, 98, 108, 101, 65, 110, 110, 111, 116, 97, 116, 105, 111, 110, 115>>,
   RuntimeInvisibleAnnotations |-> <<82, 117, 110, 116, 105, 109, 101, 73, 110, 118, 105, 115, 105, 98, 108, 101, 65, 110, 110, 111, 116, 97, 116, 105, 111, 110, 115>>,
   RuntimeVisibleParameterAnnotations |-> <<82, 117, 110, 116, 105, 109, 101, 86, 105, 115, 105, 98, 108, 101, 80, 97, 114, 97, 109, 101, 116, 101, 114, 65, 110, 110, 111, 116, 97, 116, 105, 111, 110, 115>>,
   RuntimeInvisibleParameterAnnotations |-> <<82, 117, 110, 116, 105, 109, 101, 73, 110, 118, 105, 115, 105, 98, 108, 101, 80, 97, 114, 97, 109, 101, 116, 101, 114, 65, 110, 110, 111, 116, 97, 116, 105, 111, 110, 115>>,
   RuntimeVisibleTypeAnnotations |-> <<82, 117, 110, 116, 105, 109, 101, 86, 105, 115, 105, 98, 108, 101, 84, 121, 112, 101, 65, 110, 110, 111, 116, 97, 116, 105, 111, 110, 115>>,
   RuntimeInvisibleTypeAnnotations |-> <<82, 117, 110, 116, 105, 109, 101, 73, 110, 118, 105, 115, 105, 98, 108, 101, 84, 121, 112, 101, 65, 110, 110, 111, 116, 97, 116, 105, 111, 110, 115>>,
   AnnotationDefault |-> <<65, 110, 110, 111, 116, 97, 116, 105, 111, 110, 68, 101, 102, 97, 117, 108, 116>>,
   BootstrapMethods |-> <<66, 111, 111, 116, 115, 116, 114, 97, 112, 77, 101, 116, 104, 111, 100, 115>>,
   MethodParameters |-> <<77, 101, 116, 104, 111, 100, 80, 97, 114, 97, 109, 101, 116, 101, 114, 115>>,
   Module |-> <<77, 111, 100, 117, 108, 101>>,
   ModulePackages |-> <<77, 111, 100, 117, 108, 101, 80, 97, 99, 107, 97, 103, 101, 115>>,
   ModuleMainClass |-> <<77, 111, 100, 117, 108, 101, 77, 97, 105, 110, 67, 108, 97, 115, 115>>,
   ModuleHashes |-> <<77, 111, 100, 117, 108, 101, 72, 97, 115, 104, 101, 115>>,
   ModuleTarget |-> <<77, 111, 100, 117, 108, 101, 84, 97, 114, 103, 101, 116>>,
   ModuleResolution |-> <<77, 111, 100, 117, 108, 101, 82, 101, 115, 111, 108, 117, 116, 105, 111, 110>>,
   NestHost |-> <<78, 101, 115, 116, 72, 111, 115, 116>>,
   NestMembers |-> <<78, 101, 115, 116, 77, 101, 109, 98, 101, 114, 115>>,
   Record |-> <<82, 101, 99, 111, 114, 100>>,
   PermittedSubclasses |-> <<80, 101, 114, 109, 105, 116, 116, 101, 100, 83, 117, 98, 99, 108, 97, 115, 115, 101, 115>>]

\* The string literals of the sub-grammar errors.
Str_annotation == <<97, 110, 110, 111, 116, 97, 116, 105, 111, 110>>
Str_type_annotation == <<116, 121, 112, 101, 95, 97, 110, 110, 111, 116, 97, 116, 105, 111, 110>>

(***************************************************************************)
(* Lists of u2 fields, as the attribute bodies read them.  An item of k u2 *)
(* fields is the tuple of its values in the order read.                    *)
(***************************************************************************)
RECURSIVE read_u2s(_, _, _)
read_u2s(r, k, acc) ==
  IF k = 0 THEN Ok(acc, r)
  ELSE Bind([x \in {read_u2(r)} |-> IF ~x.ok THEN x ELSE read_u2s(x.r, k - 1, Append(acc, x.v))])

\* for _ in 0..n { push(Item { k u2 fields, each read_u2()? }) }
RECURSIVE read_u2_items(_, _, _, _)
\* The loop if its last item were looked at and left in the reader.
read_u2_items_rewinds(r, n, k, acc) ==
  IF n = 0 THEN Ok(acc, r)
  ELSE Bind([it \in {read_u2s(r, k, <<>>)} |-> IF ~it.ok THEN it ELSE
       read_u2_items(Turn(r, IF n = 1 THEN Resume(r, it.r.gh) ELSE it.r), n - 1, k,
                     Append(acc, it.v))])

read_u2_items(r, n, k, acc) ==
  IF n = 0 THEN Ok(acc, r)
  ELSE Bind([it \in {read_u2s(r, k, <<>>)} |-> IF ~it.ok THEN it ELSE
       read_u2_items(Turn(r, it.r), n - 1, k, Append(acc, it.v))])

\* let num = read_u2()? as usize; followed by that loop.
counted_u2_items(r, k) ==
  Bind([num \in {read_u2(r)} |-> IF ~num.ok THEN num ELSE read_u2_items(num.r, num.v, k, <<>>)])

\* for _ in 0..n { k u2 fields, then a u2-counted list of u2 }
RECURSIVE read_u2s_with_list(_, _, _, _)
read_u2s_with_list(r, n, k, acc) ==
  IF n = 0 THEN Ok(acc, r)
  ELSE Bind([head \in {read_u2s(r, k, <<>>)} |-> IF ~head.ok THEN head ELSE
       Bind([list \in {counted_u2_items(head.r, 1)} |-> IF ~list.ok THEN list ELSE
       read_u2s_with_list(Turn(r, list.r), n - 1, k, Append(acc, [head |-> head.v, list |-> list.v]))])])

counted_u2s_with_list(r, k) ==
  Bind([num \in {read_u2(r)} |->
    IF ~num.ok THEN num ELSE read_u2s_with_list(num.r, num.v, k, <<>>)])

(***************************************************************************)
(* parse_stack_map_table, parse_verification_type_info                     *)
(***************************************************************************)
\* a - b on u8: an overflow panics (or wraps, where overflow checks are off).
sub_u8(a, b) == IF a >= b THEN OkV(a - b) ELSE ErrV(Panic)

parse_verification_type_info(r) ==
  Bind([tag \in {read_u1(r)} |-> IF ~tag.ok THEN tag ELSE
  CASE tag.v = 0 -> Ok([vti |-> "Top"], tag.r)
    [] tag.v = 1 -> Ok([vti |-> "Integer"], tag.r)
    [] tag.v = 2 -> Ok([vti |-> "Float"], tag.r)
    [] tag.v = 3 -> Ok([vti |-> "Double"], tag.r)
    [] tag.v = 4 -> Ok([vti |-> "Long"], tag.r)
    [] tag.v = 5 -> Ok([vti |-> "Null"], tag.r)
    [] tag.v = 6 -> Ok([vti |-> "UninitializedThis"], tag.r)
    [] tag.v = 7 -> Bind([x \in {read_u2(tag.r)} |-> IF ~x.ok THEN x ELSE
                    Ok([vti |-> "Object", index |-> x.v], x.r)])
    [] tag.v = 8 -> Bind([x \in {read_u2(tag.r)} |-> IF ~x.ok THEN x ELSE
                    Ok([vti |-> "Uninitialized", offset |-> x.v], x.r)])
    [] OTHER -> Err(InvalidAttribute(KnownName.StackMapTable), tag.r)])

RECURSIVE verification_type_infos(_, _, _)
verification_type_infos(r, n, acc) ==
  IF n = 0 THEN Ok(acc, r)
  ELSE Bind([x \in {parse_verification_type_info(r)} |-> IF ~x.ok THEN x ELSE
       verification_type_infos(Turn(r, x.r), n - 1, Append(acc, x.v))])

\* k counted up from 247 instead of down from 251.
chop_k_from_247(frame_type) == sub_u8(frame_type, 247)

\* k: 251u8 - frame_type
chop_k(frame_type) == sub_u8(251, frame_type)

\* The arms of `match frame_type` from 247 on, and the default arm.
stack_map_frame_extended(frame_type, r) ==
  IF frame_type = 247 THEN
    Bind([offset_delta \in {read_u2(r)} |-> IF ~offset_delta.ok THEN offset_delta ELSE
    Bind([stack \in {parse_verification_type_info(offset_delta.r)} |-> IF ~stack.ok THEN stack ELSE
    Ok([frame |-> "SameLocals1StackItemExtended", offset_delta |-> offset_delta.v,
        stack |-> stack.v], stack.r)])])
  ELSE IF frame_type >= 248 /\ frame_type <= 250 THEN
    Bind([offset_delta \in {read_u2(r)} |-> IF ~offset_delta.ok THEN offset_delta ELSE
    Bind([k \in {chop_k(frame_type)} |-> IF ~k.ok THEN Err(k.e, offset_delta.r) ELSE
    Ok([frame |-> "Chop", offset_delta |-> offset_delta.v, k |-> k.v], offset_delta.r)])])
  ELSE IF frame_type = 251 THEN
    Bind([offset_delta \in {read_u2(r)} |-> IF ~offset_delta.ok THEN offset_delta ELSE
    Ok([frame |-> "SameExtended", offset_delta |-> offset_delta.v], offset_delta.r)])
  ELSE IF frame_type >= 252 /\ frame_type <= 254 THEN
    Bind([offset_delta \in {read_u2(r)} |-> IF ~offset_delta.ok THEN offset_delta ELSE
    Bind([count \in {sub_u8(frame_type, 251)} |->
      IF ~count.ok THEN Err(count.e, offset_delta.r) ELSE
    Bind([locals \in {verification_type_infos(offset_delta.r, count.v, <<>>)} |->
      IF ~locals.ok THEN locals ELSE
    Ok([frame |-> "Append", offset_delta |-> offset_delta.v, locals |-> locals.v], locals.r)])])])
  ELSE IF frame_type = 255 THEN
    Bind([offset_delta \in {read_u2(r)} |-> IF ~offset_delta.ok THEN offset_delta ELSE
    Bind([num_locals \in {read_u2(offset_delta.r)} |-> IF ~num_locals.ok THEN num_locals ELSE
    Bind([locals \in {verification_type_infos(num_locals.r, num_locals.v, <<>>)} |->
      IF ~locals.ok THEN locals ELSE
    Bind([num_stack \in {read_u2(locals.r)} |-> IF ~num_stack.ok THEN num_stack ELSE
    Bind([stack \in {verification_type_infos(num_stack.r, num_stack.v, <<>>)} |->
      IF ~stack.ok THEN stack ELSE
    Ok([frame |-> "Full", offset_delta |-> offset_delta.v, locals |-> locals.v,
        stack |-> stack.v], stack.r)])])])])])
  ELSE Err(InvalidAttribute(KnownName.StackMapTable), r)

\* The frame decoder with the Same range ending, and the next one starting,
\* one value too early.
stack_map_frame_early_range(frame_type, r) ==
  IF frame_type >= 0 /\ frame_type <= 62 THEN
    Ok([frame |-> "Same", offset_delta |-> frame_type], r)
  ELSE IF frame_type >= 63 /\ frame_type <= 127 THEN
    Bind([stack \in {parse_verification_type_info(r)} |-> IF ~stack.ok THEN stack ELSE
    Bind([d \in {sub_u8(frame_type, 64)} |-> IF ~d.ok THEN Err(d.e, stack.r) ELSE
    Ok([frame |-> "SameLocals1StackItem", offset_delta |-> d.v, stack |-> stack.v], stack.r)])])
  ELSE stack_map_frame_extended(frame_type, r)

\* The arms of `match frame_type`.
stack_map_frame(frame_type, r) ==
  IF frame_type >= 0 /\ frame_type <= 63 THEN
    Ok([frame |-> "Same", offset_delta |-> frame_type], r)
  ELSE IF frame_type >= 64 /\ frame_type <= 127 THEN
    Bind([stack \in {parse_verification_type_info(r)} |-> IF ~stack.ok THEN stack ELSE
    Bind([d \in {sub_u8(frame_type, 64)} |-> IF ~d.ok THEN Err(d.e, stack.r) ELSE
    Ok([frame |-> "SameLocals1StackItem", offset_delta |-> d.v, stack |-> stack.v], stack.r)])])
  ELSE stack_map_frame_extended(frame_type, r)

RECURSIVE stack_map_frames(_, _, _)
stack_map_frames(r, n, entries) ==
  IF n = 0 THEN Ok([entries |-> entries], r)
  ELSE Bind([frame_type \in {read_u1(r)} |-> IF ~frame_type.ok THEN frame_type ELSE
       Bind([frame \in {stack_map_frame(frame_type.v, frame_type.r)} |->
         IF ~frame.ok THEN frame ELSE
       stack_map_frames(Turn(r, frame.r), n - 1, Append(entries, frame.v))])])

parse_stack_map_table(r) ==
  Bind([num \in {read_u2(r)} |-> IF ~num.ok THEN num ELSE stack_map_frames(num.r, num.v, <<>>)])

(***************************************************************************)
(* Annotations and element values                                          *)
(***************************************************************************)
\* b'B' | b'C' | b'D' | b'F' | b'I' | b'J' | b'S' | b'Z' | b's'
ConstTags == {66, 67, 68, 70, 73, 74, 83, 90, 115}

RECURSIVE parse_element_value(_), element_values(_, _, _), parse_annotation(_),
          element_value_pairs(_, _, _), element_value_of(_, _)

\* The element-value decoder reading a ClassInfo ('c') as an EnumConst.
parse_element_value_class_as_enum(r) ==
  Bind([tag \in {read_u1(r)} |-> IF ~tag.ok THEN tag ELSE
  IF tag.v \in ConstTags THEN
    Bind([x \in {read_u2(tag.r)} |-> IF ~x.ok THEN x ELSE
    Ok([ev |-> "Const", tag |-> tag.v, const_value_index |-> x.v], x.r)])
  ELSE IF tag.v \in {101, 99} THEN
    Bind([p \in {read_u2_u2(tag.r)} |-> IF ~p.ok THEN p ELSE
    Ok([ev |-> "EnumConst", type_name_index |-> p.v[1], const_name_index |-> p.v[2]], p.r)])
  ELSE IF tag.v = 64 THEN
    Bind([annotation \in {parse_annotation(tag.r)} |-> IF ~annotation.ok THEN annotation ELSE
    Ok([ev |-> "AnnotationValue", annotation |-> annotation.v], annotation.r)])
  ELSE IF tag.v = 91 THEN
    Bind([num_values \in {read_u2(tag.r)} |-> IF ~num_values.ok THEN num_values ELSE
    Bind([values \in {element_values(num_values.r, num_values.v, <<>>)} |->
      IF ~values.ok THEN values ELSE
    Ok([ev |-> "ArrayValue", values |-> values.v], values.r)])])
  ELSE Err(InvalidAttribute(Str_annotation), tag.r)])

\* The match with an EnumConst holding an element value after its first u2.
element_value_of_enum_nests(tag, r) ==
  IF tag \in ConstTags \cup {99} THEN
    Bind([x \in {read_u2(r)} |-> IF ~x.ok THEN x ELSE
    Ok([ev |-> "Const", tag |-> tag, const_value_index |-> x.v], x.r)])
  ELSE IF tag = 101 THEN
    Bind([x \in {read_u2(r)} |-> IF ~x.ok THEN x ELSE
    Bind([value \in {parse_element_value(x.r)} |-> IF ~value.ok THEN value ELSE
    Ok([ev |-> "EnumConst", type_name_index |-> x.v, const_name_index |-> value.v], value.r)])])
  ELSE IF tag = 64 THEN
    Bind([annotation \in {parse_annotation(Descend(r, "ElementValue"))} |->
      IF ~annotation.ok THEN annotation ELSE
    Ok([ev |-> "AnnotationValue", annotation |-> annotation.v], Leave(annotation.r))])
  ELSE IF tag = 91 THEN
    Bind([num_values \in {read_u2(r)} |-> IF ~num_values.ok THEN num_values ELSE
    Bind([values \in {element_values(Descend(num_values.r, "ElementValue"), num_values.v, <<>>)} |->
      IF ~values.ok THEN values ELSE
    Ok([ev |-> "ArrayValue", values |-> values.v], Leave(values.r))])])
  ELSE Err(InvalidAttribute(Str_annotation), r)

\* let value = match tag { .. }
element_value_of(tag, r) ==
  IF tag \in ConstTags THEN
    Bind([x \in {read_u2(r)} |-> IF ~x.ok THEN x ELSE
    Ok([ev |-> "Const", tag |-> tag, const_value_index |-> x.v], x.r)])
  ELSE IF tag = 101 THEN
    Bind([p \in {read_u2_u2(r)} |-> IF ~p.ok THEN p ELSE
    Ok([ev |-> "EnumConst", type_name_index |-> p.v[1], const_name_index |-> p.v[2]], p.r)])
  ELSE IF tag = 99 THEN
    Bind([x \in {read_u2(r)} |-> IF ~x.ok THEN x ELSE
    Ok([ev |-> "ClassInfo", class_info_index |-> x.v], x.r)])
  ELSE IF tag = 64 THEN
    Bind([annotation \in {parse_annotation(Descend(r, "ElementValue"))} |->
      IF ~annotation.ok THEN annotation ELSE
    Ok([ev |-> "AnnotationValue", annotation |-> annotation.v], Leave(annotation.r))])
  ELSE IF tag = 91 THEN
    Bind([num_values \in {read_u2(r)} |-> IF ~num_values.ok THEN num_values ELSE
    Bind([values \in {element_values(Descend(num_values.r, "ElementValue"), num_values.v, <<>>)} |->
      IF ~values.ok THEN values ELSE
    Ok([ev |-> "ArrayValue", values |-> values.v], Leave(values.r))])])
  ELSE Err(InvalidAttribute(Str_annotation), r)

parse_element_value(r) ==
  Bind([tag \in {read_u1(Enter(r, "parse_element_value"))} |-> IF ~tag.ok THEN tag ELSE
  Bind([value \in {element_value_of(tag.v, tag.r)} |-> IF ~value.ok THEN value ELSE
  Ok(value.v, Leave(value.r))])])

element_values(r, n, acc) ==
  IF n = 0 THEN Ok(acc, r)
  ELSE Bind([x \in {parse_element_value(r)} |-> IF ~x.ok THEN x ELSE
       element_values(Turn(r, x.r), n - 1, Append(acc, x.v))])

\* for _ in 0..num_pairs { element_name_index, parse_element_value }
element_value_pairs(r, n, acc) ==
  IF n = 0 THEN Ok(acc, r)
  ELSE Bind([element_name_index \in {read_u2(r)} |->
         IF ~element_name_index.ok THEN element_name_index ELSE
       Bind([value \in {parse_element_value(element_name_index.r)} |-> IF ~value.ok THEN value ELSE
       element_value_pairs(Turn(r, value.r), n - 1,
         Append(acc, [element_name_index |-> element_name_index.v, value |-> value.v]))])])

parse_annotation(r) ==
  Bind([type_index \in {read_u2(r)} |-> IF ~type_index.ok THEN type_index ELSE
  Bind([num_pairs \in {read_u2(type_index.r)} |-> IF ~num_pairs.ok THEN num_pairs ELSE
  Bind([pairs \in {element_value_pairs(num_pairs.r, num_pairs.v, <<>>)} |->
    IF ~pairs.ok THEN pairs ELSE
  Ok([type_index |-> type_index.v, element_value_pairs |-> pairs.v], pairs.r)])])])

RECURSIVE annotations_loop(_, _, _)
annotations_loop(r, n, acc) ==
  IF n = 0 THEN Ok(acc, r)
  ELSE Bind([x \in {parse_annotation(r)} |-> IF ~x.ok THEN x ELSE
       annotations_loop(Turn(r, x.r), n - 1, Append(acc, x.v))])

parse_annotations(r) ==
  Bind([num \in {read_u2(r)} |-> IF ~num.ok THEN num ELSE annotations_loop(num.r, num.v, <<>>)])

\* Each parameter: a u2 count and that many annotations.
RECURSIVE parameter_annotations_loop(_, _, _)
parameter_annotations_loop(r, n, out) ==
  IF n = 0 THEN Ok(out, r)
  ELSE Bind([num \in {read_u2(r)} |-> IF ~num.ok THEN num ELSE
       Bind([annotations \in {annotations_loop(num.r, num.v, <<>>)} |->
         IF ~annotations.ok THEN annotations ELSE
       parameter_annotations_loop(Turn(r, annotations.r), n - 1, Append(out, annotations.v))])])

parse_parameter_annotations(r) ==
  Bind([num_parameters \in {read_u1(r)} |-> IF ~num_parameters.ok THEN num_parameters ELSE
  parameter_annotations_loop(num_parameters.r, num_parameters.v, <<>>)])

(***************************************************************************)
(* Type annotations                                                        *)
(***************************************************************************)
\* The target_info selection with 0x16 in the range of Empty.
parse_target_info_empty_to_0x16(r, target_type) ==
  IF target_type \in {0, 1} THEN
    Bind([index \in {read_u1(r)} |-> IF ~index.ok THEN index ELSE
    Ok([target |-> "TypeParameter", index |-> index.v], index.r)])
  ELSE IF target_type = 16 THEN
    Bind([index \in {read_u2(r)} |-> IF ~index.ok THEN index ELSE
    Ok([target |-> "Supertype", index |-> index.v], index.r)])
  ELSE IF target_type \in {17, 18} THEN
    Bind([a \in {read_u1(r)} |-> IF ~a.ok THEN a ELSE
    Bind([b \in {read_u1(a.r)} |-> IF ~b.ok THEN b ELSE
    Ok([target |-> "TypeParameterBound", type_parameter_index |-> a.v, bound_index |-> b.v], b.r)])])
  ELSE IF target_type \in {19, 20, 21, 22} THEN Ok([target |-> "Empty"], r)
  ELSE IF target_type = 22 THEN
    Bind([index \in {read_u1(r)} |-> IF ~index.ok THEN index ELSE
    Ok([target |-> "FormalParameter", index |-> index.v], index.r)])
  ELSE IF target_type = 23 THEN
    Bind([index \in {read_u2(r)} |-> IF ~index.ok THEN index ELSE
    Ok([target |-> "Throws", index |-> index.v], index.r)])
  ELSE IF target_type \in {64, 65} THEN
    Bind([table \in {counted_u2_items(r, 3)} |-> IF ~table.ok THEN table ELSE
    Ok([target |-> "Localvar", table |-> table.v], table.r)])
  ELSE IF target_type = 66 THEN
    Bind([index \in {read_u2(r)} |-> IF ~index.ok THEN index ELSE
    Ok([target |-> "Catch", exception_table_index |-> index.v], index.r)])
  ELSE IF target_type \in {67, 68, 69, 70} THEN
    Bind([offset \in {read_u2(r)} |-> IF ~offset.ok THEN offset ELSE
    Ok([target |-> "Offset", offset |-> offset.v], offset.r)])
  ELSE IF target_type \in {71, 72, 73, 74, 75} THEN
    Bind([offset \in {read_u2(r)} |-> IF ~offset.ok THEN offset ELSE
    Bind([index \in {read_u1(offset.r)} |-> IF ~index.ok THEN index ELSE
    Ok([target |-> "TypeArgument", offset |-> offset.v, type_argument_index |-> index.v], index.r)])])
  ELSE Err(InvalidAttribute(Str_type_annotation), r)

parse_target_info(r, target_type) ==
  IF target_type \in {0, 1} THEN
    Bind([index \in {read_u1(r)} |-> IF ~index.ok THEN index ELSE
    Ok([target |-> "TypeParameter", index |-> index.v], index.r)])
  ELSE IF target_type = 16 THEN
    Bind([index \in {read_u2(r)} |-> IF ~index.ok THEN index ELSE
    Ok([target |-> "Supertype", index |-> index.v], index.r)])
  ELSE IF target_type \in {17, 18} THEN
    Bind([a \in {read_u1(r)} |-> IF ~a.ok THEN a ELSE
    Bind([b \in {read_u1(a.r)} |-> IF ~b.ok THEN b ELSE
    Ok([target |-> "TypeParameterBound", type_parameter_index |-> a.v, bound_index |-> b.v], b.r)])])
  ELSE IF target_type \in {19, 20, 21} THEN Ok([target |-> "Empty"], r)
  ELSE IF target_type = 22 THEN
    Bind([index \in {read_u1(r)} |-> IF ~index.ok THEN index ELSE
    Ok([target |-> "FormalParameter", index |-> index.v], index.r)])
  ELSE IF target_type = 23 THEN
    Bind([index \in {read_u2(r)} |-> IF ~index.ok THEN index ELSE
    Ok([target |-> "Throws", index |-> index.v], index.r)])
  ELSE IF target_type \in {64, 65} THEN
    Bind([table \in {counted_u2_items(r, 3)} |-> IF ~table.ok THEN table ELSE
    Ok([target |-> "Localvar", table |-> table.v], table.r)])
  ELSE IF target_type = 66 THEN
    Bind([index \in {read_u2(r)} |-> IF ~index.ok THEN index ELSE
    Ok([target |-> "Catch", exception_table_index |-> index.v], index.r)])
  ELSE IF target_type \in {67, 68, 69, 70} THEN
    Bind([offset \in {read_u2(r)} |-> IF ~offset.ok THEN offset ELSE
    Ok([target |-> "Offset", offset |-> offset.v], offset.r)])
  ELSE IF target_type \in {71, 72, 73, 74, 75} THEN
    Bind([offset \in {read_u2(r)} |-> IF ~offset.ok THEN offset ELSE
    Bind([index \in {read_u1(offset.r)} |-> IF ~index.ok THEN index ELSE
    Ok([target |-> "TypeArgument", offset |-> offset.v, type_argument_index |-> index.v], index.r)])])
  ELSE Err(InvalidAttribute(Str_type_annotation), r)

RECURSIVE type_path_entries(_, _, _)
type_path_entries(r, n, entries) ==
  IF n = 0 THEN Ok(entries, r)
  ELSE Bind([kind \in {read_u1(r)} |-> IF ~kind.ok THEN kind ELSE
       Bind([index \in {read_u1(kind.r)} |-> IF ~index.ok THEN index ELSE
       type_path_entries(Turn(r, index.r), n - 1,
         Append(entries, [type_path_kind |-> kind.v, type_argument_index |-> index.v]))])])

parse_type_path(r) ==
  Bind([path_length \in {read_u1(r)} |-> IF ~path_length.ok THEN path_length ELSE
  type_path_entries(path_length.r, path_length.v, <<>>)])

RECURSIVE type_annotations_loop(_, _, _)
type_annotations_loop(r, n, annotations) ==
  IF n = 0 THEN Ok(annotations, r)
  ELSE
    Bind([target_type \in {read_u1(r)} |-> IF ~target_type.ok THEN target_type ELSE
    Bind([target_info \in {parse_target_info(target_type.r, target_type.v)} |->
      IF ~target_info.ok THEN target_info ELSE
    Bind([target_path \in {parse_type_path(target_info.r)} |->
      IF ~target_path.ok THEN target_path ELSE
    Bind([type_index \in {read_u2(target_path.r)} |-> IF ~type_index.ok THEN type_index ELSE
    Bind([num_pairs \in {read_u2(type_index.r)} |-> IF ~num_pairs.ok THEN num_pairs ELSE
    Bind([pairs \in {element_value_pairs(num_pairs.r, num_pairs.v, <<>>)} |->
      IF ~pairs.ok THEN pairs ELSE
    type_annotations_loop(Turn(r, pairs.r), n - 1,
      Append(annotations,
        [target_type |-> target_type.v, target_info |-> target_info.v,
         target_path |-> target_path.v, type_index |-> type_index.v,
         element_value_pairs |-> pairs.v]))])])])])])])

parse_type_annotations(r) ==
  Bind([num \in {read_u2(r)} |->
    IF ~num.ok THEN num ELSE type_annotations_loop(num.r, num.v, <<>>)])

(***************************************************************************)
(* parse_module_attribute                                                  *)
(***************************************************************************)
parse_module_attribute(r) ==
  Bind([head \in {read_u2s(r, 3, <<>>)} |-> IF ~head.ok THEN head ELSE
  Bind([requires \in {counted_u2_items(head.r, 3)} |-> IF ~requires.ok THEN requires ELSE
  Bind([exports \in {counted_u2s_with_list(requires.r, 2)} |-> IF ~exports.ok THEN exports ELSE
  Bind([opens \in {counted_u2s_with_list(exports.r, 2)} |-> IF ~opens.ok THEN opens ELSE
  Bind([uses \in {counted_u2_items(opens.r, 1)} |-> IF ~uses.ok THEN uses ELSE
  Bind([provides \in {counted_u2s_with_list(uses.r, 1)} |-> IF ~provides.ok THEN provides ELSE
  Ok([module_name_index |-> head.v[1], module_flags |-> head.v[2],
      module_version_index |-> head.v[3], requires |-> requires.v, exports |-> exports.v,
      opens |-> opens.v, uses |-> uses.v, provides |-> provides.v], provides.r)])])])])])])

\* The loop of the ModuleHashes arm.
RECURSIVE module_hashes(_, _, _)
module_hashes(r, n, modules) ==
  IF n = 0 THEN Ok(modules, r)
  ELSE Bind([module_name_index \in {read_u2(r)} |->
         IF ~module_name_index.ok THEN module_name_index ELSE
       Bind([hash_len \in {read_u2(module_name_index.r)} |-> IF ~hash_len.ok THEN hash_len ELSE
       Bind([hash \in {read_bytes(hash_len.r, hash_len.v)} |-> IF ~hash.ok THEN hash ELSE
       module_hashes(Turn(r, hash.r), n - 1,
         Append(modules, [module_name_index |-> module_name_index.v, hash |-> hash.v.b]))])])])

(***************************************************************************)
(* parse_attributes, parse_code_attribute                                  *)
(***************************************************************************)
RECURSIVE parse_attributes(_, _), parse_attributes_loop(_, _, _, _),
          parse_attribute_body(_, _, _, _), parse_code_attribute(_, _),
          record_components(_, _, _, _)

\* Every attribute of one u2 built as the ConstantValue variant.
attr_u2_as_constant_value(sub, variant) ==
  Bind([x \in {read_u2(sub)} |-> IF ~x.ok THEN x ELSE
  Ok([attr |-> "ConstantValue", index |-> x.v], x.r)])

\* An attribute of one u2.
attr_u2(sub, variant) ==
  Bind([x \in {read_u2(sub)} |-> IF ~x.ok THEN x ELSE Ok([attr |-> variant, index |-> x.v], x.r)])

\* An attribute that is a u2-counted list of items of k u2 fields.
attr_u2_items(sub, variant, k) ==
  Bind([items \in {counted_u2_items(sub, k)} |-> IF ~items.ok THEN items ELSE
  Ok([attr |-> variant, items |-> items.v], items.r)])

\* A marker attribute that skips whatever payload it was given.
marker_attribute_skips_payload(sub, variant) ==
  Bind([rest \in {read_bytes(sub, remaining(sub))} |-> IF ~rest.ok THEN rest ELSE
  Ok([attr |-> variant], rest.r)])

\* "Synthetic" => AttributeInfo::Synthetic, "Deprecated" => AttributeInfo::Deprecated:
\* nothing is read.
marker_attribute(sub, variant) == Ok([attr |-> variant], sub)

\* SourceDebugExtension read as a u2 length and that many bytes.
source_debug_extension_length_prefixed(sub) ==
  Bind([len \in {read_u2(sub)} |-> IF ~len.ok THEN len ELSE
  Bind([data \in {read_bytes(len.r, len.v)} |-> IF ~data.ok THEN data ELSE
  Ok([attr |-> "SourceDebugExtension", debug_extension |-> data.v.b], data.r)])])

\* "SourceDebugExtension" => let data = sub.read_bytes(sub.remaining())?.to_vec();
source_debug_extension(sub) ==
  Bind([data \in {read_bytes(sub, remaining(sub))} |-> IF ~data.ok THEN data ELSE
  Ok([attr |-> "SourceDebugExtension", debug_extension |-> data.v.b], data.r)])

\* The default arm forgetting to consume the payload.
unknown_attribute_unread(name, sub, info_bytes) ==
  Ok([attr |-> "Unknown", name |-> name, info |-> info_bytes.b], sub)

\* The default arm of `match name.as_str()`.
unknown_attribute(name, sub, info_bytes) ==
  Bind([rest \in {read_bytes(sub, remaining(sub))} |-> IF ~rest.ok THEN rest ELSE
  Ok([attr |-> "Unknown", name |-> name, info |-> info_bytes.b], rest.r)])

\* `match name.as_str() { ... }`: the attribute decoded from the sub-reader.
parse_attribute_body(name, sub, cp, info_bytes) ==
  CASE name = KnownName.ConstantValue -> attr_u2(sub, "ConstantValue")
    [] name = KnownName.Code ->
         Bind([code \in {parse_code_attribute(sub, cp)} |-> IF ~code.ok THEN code ELSE
         Ok([attr |-> "Code", code |-> code.v], code.r)])
    [] name = KnownName.StackMapTable ->
         Bind([t \in {parse_stack_map_table(sub)} |-> IF ~t.ok THEN t ELSE
         Ok([attr |-> "StackMapTable", table |-> t.v], t.r)])
    [] name = KnownName.Exceptions -> attr_u2_items(sub, "Exceptions", 1)
    [] name = KnownName.InnerClasses -> attr_u2_items(sub, "InnerClasses", 4)
    [] name = KnownName.EnclosingMethod ->
         Bind([p \in {read_u2_u2(sub)} |-> IF ~p.ok THEN p ELSE
         Ok([attr |-> "EnclosingMethod", class_index |-> p.v[1], method_index |-> p.v[2]], p.r)])
    [] name = KnownName.Synthetic -> marker_attribute(sub, "Synthetic")
    [] name = KnownName.Signature -> attr_u2(sub, "Signature")
    [] name = KnownName.SourceFile -> attr_u2(sub, "SourceFile")
    [] name = KnownName.SourceDebugExtension -> source_debug_extension(sub)
    [] name = KnownName.LineNumberTable -> attr_u2_items(sub, "LineNumberTable", 2)
    [] name = KnownName.LocalVariableTable -> attr_u2_items(sub, "LocalVariableTable", 5)
    [] name = KnownName.LocalVariableTypeTable ->
         attr_u2_items(sub, "LocalVariableTypeTable", 5)
    [] name = KnownName.Deprecated -> marker_attribute(sub, "Deprecated")
    [] name = KnownName.RuntimeVisibleAnnotations ->
         Bind([a \in {parse_annotations(sub)} |-> IF ~a.ok THEN a ELSE
         Ok([attr |-> "RuntimeVisibleAnnotations", annotations |-> a.v], a.r)])
    [] name = KnownName.RuntimeInvisibleAnnotations ->
         Bind([a \in {parse_annotations(sub)} |-> IF ~a.ok THEN a ELSE
         Ok([attr |-> "RuntimeInvisibleAnnotations", annotations |-> a.v], a.r)])
    [] name = KnownName.RuntimeVisibleParameterAnnotations ->
         Bind([a \in {parse_parameter_annotations(sub)} |-> IF ~a.ok THEN a ELSE
         Ok([attr |-> "RuntimeVisibleParameterAnnotations", parameter_annotations |-> a.v], a.r)])
    [] name = KnownName.RuntimeInvisibleParameterAnnotations ->
         Bind([a \in {parse_parameter_annotations(sub)} |-> IF ~a.ok THEN a ELSE
         Ok([attr |-> "RuntimeInvisibleParameterAnnotations", parameter_annotations |-> a.v],
            a.r)])
    [] name = KnownName.RuntimeVisibleTypeAnnotations ->
         Bind([a \in {parse_type_annotations(sub)} |-> IF ~a.ok THEN a ELSE
         Ok([attr |-> "RuntimeVisibleTypeAnnotations", annotations |-> a.v], a.r)])
    [] name = KnownName.RuntimeInvisibleTypeAnnotations ->
         Bind([a \in {parse_type_annotations(sub)} |-> IF ~a.ok THEN a ELSE
         Ok([attr |-> "RuntimeInvisibleTypeAnnotations", annotations |-> a.v], a.r)])
    [] name = KnownName.AnnotationDefault ->
         Bind([v \in {parse_element_value(sub)} |-> IF ~v.ok THEN v ELSE
         Ok([attr |-> "AnnotationDefault", default_value |-> v.v], v.r)])
    [] name = KnownName.BootstrapMethods ->
         Bind([m \in {counted_u2s_with_list(sub, 1)} |-> IF ~m.ok THEN m ELSE
         Ok([attr |-> "BootstrapMethods", methods |-> m.v], m.r)])
    [] name = KnownName.MethodParameters ->
         Bind([num \in {read_u1(sub)} |-> IF ~num.ok THEN num ELSE
         Bind([p \in {read_u2_items(num.r, num.v, 2, <<>>)} |-> IF ~p.ok THEN p ELSE
         Ok([attr |-> "MethodParameters", parameters |-> p.v], p.r)])])
    [] name = KnownName.Module ->
         Bind([m \in {parse_module_attribute(sub)} |-> IF ~m.ok THEN m ELSE
         Ok([attr |-> "Module", module |-> m.v], m.r)])
    [] name = KnownName.ModulePackages -> attr_u2_items(sub, "ModulePackages", 1)
    [] name = KnownName.ModuleMainClass -> attr_u2(sub, "ModuleMainClass")
    [] name = KnownName.ModuleHashes ->
         Bind([algorithm_index \in {read_u2(sub)} |->
           IF ~algorithm_index.ok THEN algorithm_index ELSE
         Bind([num \in {read_u2(algorithm_index.r)} |-> IF ~num.ok THEN num ELSE
         Bind([modules \in {module_hashes(num.r, num.v, <<>>)} |-> IF ~modules.ok THEN modules ELSE
         Ok([attr |-> "ModuleHashes", algorithm_index |-> algorithm_index.v,
             modules |-> modules.v], modules.r)])])])
    [] name = KnownName.ModuleTarget -> attr_u2(sub, "ModuleTarget")
    [] name = KnownName.ModuleResolution -> attr_u2(sub, "ModuleResolution")
    [] name = KnownName.NestHost -> attr_u2(sub, "NestHost")
    [] name = KnownName.NestMembers -> attr_u2_items(sub, "NestMembers", 1)
    [] name = KnownName.Record ->
         Bind([num \in {read_u2(sub)} |-> IF ~num.ok THEN num ELSE
         Bind([components \in {record_components(num.r, cp, num.v, <<>>)} |->
           IF ~components.ok THEN components ELSE
         Ok([attr |-> "Record", components |-> components.v], components.r)])])
    [] name = KnownName.PermittedSubclasses -> attr_u2_items(sub, "PermittedSubclasses", 1)
    [] OTHER -> unknown_attribute(name, sub, info_bytes)

\* The loop of the Record arm leaving the component's attribute list unread.
record_components_no_attributes(sub, cp, n, components) ==
  IF n = 0 THEN Ok(components, sub)
  ELSE Bind([name_index \in {read_u2(sub)} |-> IF ~name_index.ok THEN name_index ELSE
       Bind([descriptor_index \in {read_u2(name_index.r)} |->
         IF ~descriptor_index.ok THEN descriptor_index ELSE
       record_components(Turn(sub, descriptor_index.r), cp, n - 1,
         Append(components, [name_index |-> name_index.v,
                             descriptor_index |-> descriptor_index.v,
                             attributes |-> <<>>]))])])

\* The loop of the Record arm.
record_components(sub, cp, n, components) ==
  IF n = 0 THEN Ok(components, sub)
  ELSE Bind([name_index \in {read_u2(sub)} |-> IF ~name_index.ok THEN name_index ELSE
       Bind([descriptor_index \in {read_u2(name_index.r)} |->
         IF ~descriptor_index.ok THEN descriptor_index ELSE
       Bind([attributes \in {parse_attributes(Descend(descriptor_index.r, "Record"), cp)} |->
         IF ~attributes.ok THEN attributes ELSE
       record_components(Turn(sub, Leave(attributes.r)), cp, n - 1,
         Append(components, [name_index |-> name_index.v,
                             descriptor_index |-> descriptor_index.v,
                             attributes |-> attributes.v]))])])])

\* The sub-reader made over everything left in the enclosing reader.
attribute_sub_reader_to_end(r, length) ==
  Bind([info_bytes \in {read_bytes(r, length)} |-> IF ~info_bytes.ok THEN info_bytes ELSE
  Ok([info_bytes |-> info_bytes.v,
      sub |-> Reader_new(Slice(SubSeq(r.data.b, r.pos + 1, Len(r.data.b)), r.data.off + r.pos),
                         GhOpen(info_bytes.r.gh, info_bytes.v.off, length))],
     info_bytes.r)])

\* let info_bytes = r.read_bytes(length)?; let mut sub = Reader::new(info_bytes);
attribute_sub_reader(r, length) ==
  Bind([info_bytes \in {read_bytes(r, length)} |-> IF ~info_bytes.ok THEN info_bytes ELSE
  Ok([info_bytes |-> info_bytes.v,
      sub |-> Reader_new(info_bytes.v, GhOpen(info_bytes.r.gh, info_bytes.v.off, length))],
     info_bytes.r)])

\* The end-of-attribute test left out.
check_consumed_skipped(attr, cp, name_index) == Ok(attr.v, attr.r)

\* if sub.remaining() != 0 { return Err(InvalidAttribute(..)) }: attr is the
\* Ok result of the body decode, attr.r the sub-reader after it.
check_consumed(attr, cp, name_index) ==
  IF remaining(attr.r) # 0 THEN
    Bind([name \in {IF attr.v.attr = "Unknown" THEN Ok(attr.v.name, attr.r)
                    ELSE lookup_utf8(cp, name_index, attr.r)} |->
      IF ~name.ok THEN name ELSE Err(InvalidAttribute(name.v), name.r)])
  ELSE Ok(attr.v, attr.r)

\* The `for _ in 0..count` loop, n iterations left.
parse_attributes_loop(r, cp, n, attrs) ==
  IF n = 0 THEN Ok(attrs, r)
  ELSE
    Bind([name_index \in {read_u2(r)} |-> IF ~name_index.ok THEN name_index ELSE
    Bind([length \in {read_u4(Resume(name_index.r, GhName(name_index.r.gh, name_index.v)))} |->
      IF ~length.ok THEN length ELSE
    Bind([name \in {lookup_utf8(cp, name_index.v, length.r)} |-> IF ~name.ok THEN name ELSE
    Bind([body \in {attribute_sub_reader(name.r, as_usize(length.v))} |->
      IF ~body.ok THEN body ELSE
    Bind([attr \in {parse_attribute_body(name.v, body.v.sub, cp, body.v.info_bytes)} |->
      IF ~attr.ok THEN attr ELSE
    Bind([done \in {check_consumed(attr, cp, name_index.v)} |-> IF ~done.ok THEN done ELSE
    parse_attributes_loop(
      Turn(r, Resume(body.r,
                     GhClose(done.r.gh, r.data.off + r.pos, body.r.data.off + body.r.pos))),
      cp, n - 1, Append(attrs, done.v))])])])])])])

parse_attributes(r, cp) ==
  Bind([count \in {read_u2(Enter(r, "parse_attributes"))} |-> IF ~count.ok THEN count ELSE
  Bind([attrs \in {parse_attributes_loop(count.r, cp, count.v, <<>>)} |->
    IF ~attrs.ok THEN attrs ELSE
  Ok(attrs.v, Leave(attrs.r))])])

\* Code keeping what follows the exception table as raw bytes.
parse_code_attribute_skips_nested(r, cp) ==
  Bind([max_stack \in {read_u2(r)} |-> IF ~max_stack.ok THEN max_stack ELSE
  Bind([max_locals \in {read_u2(max_stack.r)} |-> IF ~max_locals.ok THEN max_locals ELSE
  Bind([code_length \in {read_u4(max_locals.r)} |-> IF ~code_length.ok THEN code_length ELSE
  Bind([code \in {read_bytes(code_length.r, as_usize(code_length.v))} |-> IF ~code.ok THEN code ELSE
  Bind([exception_table \in {counted_u2_items(code.r, 4)} |->
    IF ~exception_table.ok THEN exception_table ELSE
  Bind([rest \in {read_bytes(exception_table.r, remaining(exception_table.r))} |->
    IF ~rest.ok THEN rest ELSE
  Ok([max_stack |-> max_stack.v, max_locals |-> max_locals.v, code |-> code.v.b,
      exception_table |-> exception_table.v, attributes |-> <<>>], rest.r)])])])])])])

parse_code_attribute(r, cp) ==
  Bind([max_stack \in {read_u2(r)} |-> IF ~max_stack.ok THEN max_stack ELSE
  Bind([max_locals \in {read_u2(max_stack.r)} |-> IF ~max_locals.ok THEN max_locals ELSE
  Bind([code_length \in {read_u4(max_locals.r)} |-> IF ~code_length.ok THEN code_length ELSE
  Bind([code \in {read_bytes(code_length.r, as_usize(code_length.v))} |-> IF ~code.ok THEN code ELSE
  Bind([exception_table \in {counted_u2_items(code.r, 4)} |->
    IF ~exception_table.ok THEN exception_table ELSE
  Bind([attributes \in {parse_attributes(Descend(exception_table.r, "Code"), cp)} |->
    IF ~attributes.ok THEN attributes ELSE
  Ok([max_stack |-> max_stack.v, max_locals |-> max_locals.v, code |-> code.v.b,
      exception_table |-> exception_table.v, attributes |-> attributes.v],
     Leave(attributes.r))])])])])])])

(***************************************************************************)
(* parse_field, parse_method, ClassFile::parse                             *)
(***************************************************************************)
\* parse_field resolving the field's name in the pool.
parse_field_resolves_name(r, cp) ==
  Bind([access_flags \in {read_u2(r)} |-> IF ~access_flags.ok THEN access_flags ELSE
  Bind([name_index \in {read_u2(access_flags.r)} |-> IF ~name_index.ok THEN name_index ELSE
  Bind([descriptor_index \in {read_u2(name_index.r)} |->
    IF ~descriptor_index.ok THEN descriptor_index ELSE
  Bind([name \in {lookup_utf8(cp, name_index.v, descriptor_index.r)} |-> IF ~name.ok THEN name ELSE
  Bind([attributes \in {parse_attributes(name.r, cp)} |->
    IF ~attributes.ok THEN attributes ELSE
  Ok([access_flags |-> access_flags.v, name_index |-> name_index.v,
      descriptor_index |-> descriptor_index.v, attributes |-> attributes.v], attributes.r)])])])])])

parse_field(r, cp) ==
  Bind([access_flags \in {read_u2(r)} |-> IF ~access_flags.ok THEN access_flags ELSE
  Bind([name_index \in {read_u2(access_flags.r)} |-> IF ~name_index.ok THEN name_index ELSE
  Bind([descriptor_index \in {read_u2(name_index.r)} |->
    IF ~descriptor_index.ok THEN descriptor_index ELSE
  Bind([attributes \in {parse_attributes(descriptor_index.r, cp)} |->
    IF ~attributes.ok THEN attributes ELSE
  Ok([access_flags |-> access_flags.v, name_index |-> name_index.v,
      descriptor_index |-> descriptor_index.v, attributes |-> attributes.v], attributes.r)])])])])

\* parse_method carrying on with no attributes when the attribute list fails.
parse_method_swallows_error(r, cp) ==
  Bind([access_flags \in {read_u2(r)} |-> IF ~access_flags.ok THEN access_flags ELSE
  Bind([name_index \in {read_u2(access_flags.r)} |-> IF ~name_index.ok THEN name_index ELSE
  Bind([descriptor_index \in {read_u2(name_index.r)} |->
    IF ~descriptor_index.ok THEN descriptor_index ELSE
  LET attributes == parse_attributes(descriptor_index.r, cp) IN
  IF ~attributes.ok
  THEN Ok([access_flags |-> access_flags.v, name_index |-> name_index.v,
           descriptor_index |-> descriptor_index.v, attributes |-> <<>>],
          Resume(descriptor_index.r, attributes.r.gh))
  ELSE
  Ok([access_flags |-> access_flags.v, name_index |-> name_index.v,
      descriptor_index |-> descriptor_index.v, attributes |-> attributes.v], attributes.r)])])])

parse_method(r, cp) ==
  Bind([access_flags \in {read_u2(r)} |-> IF ~access_flags.ok THEN access_flags ELSE
  Bind([name_index \in {read_u2(access_flags.r)} |-> IF ~name_index.ok THEN name_index ELSE
  Bind([descriptor_index \in {read_u2(name_index.r)} |->
    IF ~descriptor_index.ok THEN descriptor_index ELSE
  Bind([attributes \in {parse_attributes(descriptor_index.r, cp)} |->
    IF ~attributes.ok THEN attributes ELSE
  Ok([access_flags |-> access_flags.v, name_index |-> name_index.v,
      descriptor_index |-> descriptor_index.v, attributes |-> attributes.v], attributes.r)])])])])

RECURSIVE fields_loop(_, _, _, _)
fields_loop(r, cp, n, fields) ==
  IF n = 0 THEN Ok(fields, r)
  ELSE Bind([f \in {parse_field(r, cp)} |-> IF ~f.ok THEN f ELSE
       fields_loop(Turn(r, f.r), cp, n - 1, Append(fields, f.v))])

RECURSIVE methods_loop(_, _, _, _)
methods_loop(r, cp, n, methods) ==
  IF n = 0 THEN Ok(methods, r)
  ELSE Bind([m \in {parse_method(r, cp)} |-> IF ~m.ok THEN m ELSE
       methods_loop(Turn(r, m.r), cp, n - 1, Append(methods, m.v))])

\* 0xCAFEBABE
Magic == U32(51966, 47806)

\* The magic compared only after the versions have been read.
read_magic_late(r) ==
  Bind([magic \in {read_u4(r)} |-> IF ~magic.ok THEN magic ELSE
  Bind([minor_version \in {read_u2(magic.r)} |-> IF ~minor_version.ok THEN minor_version ELSE
  IF magic.v # Magic THEN Err(InvalidMagic(magic.v), minor_version.r)
  ELSE Ok(magic.v, magic.r)])])

\* let magic = r.read_u4()?; if magic != 0xCAFEBABE { return Err(InvalidMagic(magic)) }
read_magic(r) ==
  Bind([magic \in {read_u4(r)} |-> IF ~magic.ok THEN magic ELSE
  IF magic.v # Magic THEN Err(InvalidMagic(magic.v), magic.r)
  ELSE Ok(magic.v, magic.r)])

\* ClassFile::parse if it took bytes after the class attributes for an error.
ClassFile_parse_requires_end(buf) ==
  LET r == Reader_new(Slice(buf, 0), Gh0) IN
  Bind([magic \in {read_magic(r)} |-> IF ~magic.ok THEN magic ELSE
  Bind([minor_version \in {read_u2(magic.r)} |-> IF ~minor_version.ok THEN minor_version ELSE
  Bind([major_version \in {read_u2(minor_version.r)} |->
    IF ~major_version.ok THEN major_version ELSE
  Bind([constant_pool \in {parse_constant_pool(major_version.r)} |->
    IF ~constant_pool.ok THEN constant_pool ELSE
  Bind([access_flags \in {read_u2(constant_pool.r)} |-> IF ~access_flags.ok THEN access_flags ELSE
  Bind([this_class \in {read_u2(access_flags.r)} |-> IF ~this_class.ok THEN this_class ELSE
  Bind([super_class \in {read_u2(this_class.r)} |-> IF ~super_class.ok THEN super_class ELSE
  Bind([interfaces \in {counted_u2_items(super_class.r, 1)} |->
    IF ~interfaces.ok THEN interfaces ELSE
  Bind([fields_count \in {read_u2(interfaces.r)} |-> IF ~fields_count.ok THEN fields_count ELSE
  Bind([fields \in {fields_loop(fields_count.r, constant_pool.v, fields_count.v, <<>>)} |->
    IF ~fields.ok THEN fields ELSE
  Bind([methods_count \in {read_u2(fields.r)} |-> IF ~methods_count.ok THEN methods_count ELSE
  Bind([methods \in {methods_loop(methods_count.r, constant_pool.v, methods_count.v, <<>>)} |->
    IF ~methods.ok THEN methods ELSE
  Bind([attributes \in {parse_attributes(methods.r, constant_pool.v)} |->
    IF ~attributes.ok THEN attributes
    ELSE IF remaining(attributes.r) # 0 THEN Err(UnexpectedEof, attributes.r) ELSE
  Ok([minor_version |-> minor_version.v, major_version |-> major_version.v,
      constant_pool |-> constant_pool.v, access_flags |-> access_flags.v,
      this_class |-> this_class.v, super_class |-> super_class.v,
      interfaces |-> interfaces.v, fields |-> fields.v, methods |-> methods.v,
      attributes |-> attributes.v], attributes.r)])])])])])])])])])])])])])

ClassFile_parse(buf) ==
  LET r == Reader_new(Slice(buf, 0), Gh0) IN
  Bind([magic \in {read_magic(r)} |-> IF ~magic.ok THEN magic ELSE
  Bind([minor_version \in {read_u2(magic.r)} |-> IF ~minor_version.ok THEN minor_version ELSE
  Bind([major_version \in {read_u2(minor_version.r)} |->
    IF ~major_version.ok THEN major_version ELSE
  Bind([constant_pool \in {parse_constant_pool(major_version.r)} |->
    IF ~constant_pool.ok THEN constant_pool ELSE
  Bind([access_flags \in {read_u2(constant_pool.r)} |-> IF ~access_flags.ok THEN access_flags ELSE
  Bind([this_class \in {read_u2(access_flags.r)} |-> IF ~this_class.ok THEN this_class ELSE
  Bind([super_class \in {read_u2(this_class.r)} |-> IF ~super_class.ok THEN super_class ELSE
  Bind([interfaces \in {counted_u2_items(super_class.r, 1)} |->
    IF ~interfaces.ok THEN interfaces ELSE
  Bind([fields_count \in {read_u2(interfaces.r)} |-> IF ~fields_count.ok THEN fields_count ELSE
  Bind([fields \in {fields_loop(fields_count.r, constant_pool.v, fields_count.v, <<>>)} |->
    IF ~fields.ok THEN fields ELSE
  Bind([methods_count \in {read_u2(fields.r)} |-> IF ~methods_count.ok THEN methods_count ELSE
  Bind([methods \in {methods_loop(methods_count.r, constant_pool.v, methods_count.v, <<>>)} |->
    IF ~methods.ok THEN methods ELSE
  Bind([attributes \in {parse_attributes(methods.r, constant_pool.v)} |->
    IF ~attributes.ok THEN attributes ELSE
  Ok([minor_version |-> minor_version.v, major_version |-> major_version.v,
      constant_pool |-> constant_pool.v, access_flags |-> access_flags.v,
      this_class |-> this_class.v, super_class |-> super_class.v,
      interfaces |-> interfaces.v, fields |-> fields.v, methods |-> methods.v,
      attributes |-> attributes.v], attributes.r)])])])])])])])])])])])])])

(***************************************************************************)
(* Input buffers, built as tests/classfile.rs builds them                  *)
(***************************************************************************)
u1(v) == <<v>>
u2(v) == <<v \div 256, v % 256>>
u4(v) == <<v \div 16777216, (v \div 65536) % 256, (v \div 256) % 256, v % 256>>

RECURSIVE Cat(_)
Cat(seqs) == IF seqs = <<>> THEN <<>> ELSE Head(seqs) \o Cat(Tail(seqs))

\* push_attr with the declared length given apart from the bytes written.
push_attr_len(name_index, length, info) == u2(name_index) \o u4(length) \o info

push_attr(name_index, info) == push_attr_len(name_index, Len(info), info)

cp_utf8(s) == <<1>> \o u2(Len(s)) \o s

\* u4(0xCAFEBABE), minor 0, major 52
Header == <<202, 254, 186, 190>> \o u2(0) \o u2(52)

\* A pool entry of an input: its tag, its bytes and the CpInfo they encode.
Entry(t, b, x) == [t |-> t, b |-> b, x |-> x]

\* s is ASCII, so the string it encodes has the code points s.
Utf8Entry(s) == Entry(1, cp_utf8(s), [tag |-> "Utf8", s |-> s])

ValidTags == {1, 3, 4, 5, 6, 7, 8, 9, 10, 11, 12, 15, 16, 17, 18, 19, 20}

\* One entry of each tag; a tag that is none stands alone.
CanonEntry(t) ==
  CASE t = 1 -> Utf8Entry(<<65>>)
    [] t = 3 -> Entry(3, <<3, 255, 255, 255, 133>>, [tag |-> "Integer", value |-> -123])
    [] t = 4 -> Entry(4, <<4>> \o u4(123), [tag |-> "Float", bits |-> U32(0, 123)])
    [] t = 5 -> Entry(5, <<5>> \o u4(1) \o u4(2),
                      [tag |-> "Long",
                       value |-> [negative |-> FALSE, magnitude |-> <<0, 1, 0, 2>>]])
    [] t = 6 -> Entry(6, <<6>> \o u4(1) \o u4(2),
                      [tag |-> "Double", high |-> U32(0, 1), low |-> U32(0, 2)])
    [] t = 7 -> Entry(7, <<7>> \o u2(1), [tag |-> "Class", name_index |-> 1])
    [] t = 8 -> Entry(8, <<8>> \o u2(1), [tag |-> "String", string_index |-> 1])
    [] t = 9 -> Entry(9, <<9>> \o u2(1) \o u2(2),
                      [tag |-> "Fieldref", class_index |-> 1, name_and_type_index |-> 2])
    [] t = 10 -> Entry(10, <<10>> \o u2(1) \o u2(2),
                       [tag |-> "Methodref", class_index |-> 1, name_and_type_index |-> 2])
    [] t = 11 -> Entry(11, <<11>> \o u2(1) \o u2(2),
                       [tag |-> "InterfaceMethodref", class_index |-> 1,
                        name_and_type_index |-> 2])
    [] t = 12 -> Entry(12, <<12>> \o u2(1) \o u2(2),
                       [tag |-> "NameAndType", name_index |-> 1, descriptor_index |-> 2])
    [] t = 15 -> Entry(15, <<15, 9>> \o u2(1),
                       [tag |-> "MethodHandle", reference_kind |-> 9, reference_index |-> 1])
    [] t = 16 -> Entry(16, <<16>> \o u2(1), [tag |-> "MethodType", descriptor_index |-> 1])
    [] t = 17 -> Entry(17, <<17>> \o u2(1) \o u2(2),
                       [tag |-> "Dynamic", bootstrap_method_attr_index |-> 1,
                        name_and_type_index |-> 2])
    [] t = 18 -> Entry(18, <<18>> \o u2(1) \o u2(2),
                       [tag |-> "InvokeDynamic", bootstrap_method_attr_index |-> 1,
                        name_and_type_index |-> 2])
    [] t = 19 -> Entry(19, <<19>> \o u2(1), [tag |-> "Module", name_index |-> 1])
    [] t = 20 -> Entry(20, <<20>> \o u2(1), [tag |-> "Package", name_index |-> 1])
    [] OTHER -> Entry(t, <<t>>, [tag |-> "none"])

\* The pool of the attribute inputs: 1 the name under test, 2 "Code",
\* 3 "Record", 4 "ConstantValue", 5 "LineNumberTable", 6 Integer -123,
\* 7 Class -> 1.
AttrPool(nameBytes) ==
  <<Utf8Entry(nameBytes), Utf8Entry(KnownName.Code), Utf8Entry(KnownName.Record),
    Utf8Entry(KnownName.ConstantValue), Utf8Entry(KnownName.LineNumberTable),
    CanonEntry(3), CanonEntry(7)>>

\* The bytes of a pool: the declared count and the entries.
PoolBytes(count, pool) == u2(count) \o Cat([k \in 1..Len(pool) |-> pool[k].b])

\* access_flags 0x0021, this_class, super_class, no interfaces
ClassHead == u2(33) \o u2(7) \o u2(7) \o u2(0)

\* access_flags, name_index, descriptor_index of a field or method
Member == u2(1) \o u2(1) \o u2(1)

\* name_index, descriptor_index of a record component
Component == u2(1) \o u2(1)

Levels == {"class", "field", "method", "code", "record"}

\* Everything after the pool, holding the attribute bytes a at the level.
Body_at(level, a) ==
  CASE level = "class" -> ClassHead \o u2(0) \o u2(0) \o u2(1) \o a
    [] level = "field" -> ClassHead \o u2(1) \o Member \o u2(1) \o a \o u2(0) \o u2(0)
    [] level = "method" -> ClassHead \o u2(0) \o u2(1) \o Member \o u2(1) \o a \o u2(0)
    [] level = "code" ->
         ClassHead \o u2(0) \o u2(1) \o Member \o u2(1)
           \o push_attr(2, u2(1) \o u2(1) \o u4(1) \o <<177>> \o u2(0) \o u2(1) \o a)
           \o u2(0)
    [] level = "record" ->
         ClassHead \o u2(0) \o u2(0) \o u2(1) \o push_attr(3, u2(1) \o Component \o u2(1) \o a)

Fill(n) == [i \in 1..n |-> 165]

\* An annotation with one pair of every element-value kind.
AnnotationAll ==
  u2(1) \o u2(5)
    \o u2(1) \o <<115>> \o u2(1)
    \o u2(1) \o <<101>> \o u2(1) \o u2(2)
    \o u2(1) \o <<99>> \o u2(1)
    \o u2(1) \o <<64>> \o u2(1) \o u2(0)
    \o u2(1) \o <<91>> \o u2(2) \o <<73>> \o u2(1) \o <<90>> \o u2(1)

TypeAnnotations3 ==
  u2(3)
    \o <<0, 1>> \o <<1, 0, 0>> \o u2(1) \o u2(0)
    \o <<64>> \o u2(1) \o u2(0) \o u2(1) \o u2(2) \o <<0>> \o u2(1)
       \o u2(1) \o u2(1) \o <<115>> \o u2(1)
    \o <<71>> \o u2(1) \o <<0>> \o <<0>> \o u2(1) \o u2(0)

StackMapAll ==
  u2(8) \o <<63>> \o <<64, 0>> \o <<127, 7, 0, 7>> \o <<247>> \o u2(1) \o <<1>>
    \o <<249>> \o u2(2) \o <<251>> \o u2(3) \o <<253>> \o u2(4) \o <<2, 8, 0, 9>>
    \o <<255>> \o u2(5) \o u2(1) \o <<5>> \o u2(1) \o <<6>>

\* Well-formed bodies of each known attribute: those of build_test_class and
\* fuller ones.
WellFormed ==
  [ConstantValue |-> <<u2(6)>>,
   Code |-> <<u2(1) \o u2(1) \o u4(1) \o <<177>> \o u2(0) \o u2(1)
                \o push_attr(5, u2(1) \o u2(0) \o u2(1)),
              u2(2) \o u2(3) \o u4(0) \o u2(1) \o u2(0) \o u2(1) \o u2(2) \o u2(0) \o u2(0)>>,
   StackMapTable |-> <<u2(1) \o <<0>>, StackMapAll>>,
   Exceptions |-> <<u2(1) \o u2(7), u2(0)>>,
   InnerClasses |-> <<u2(1) \o u2(7) \o u2(7) \o u2(1) \o u2(1)>>,
   EnclosingMethod |-> <<u2(7) \o u2(0)>>,
   Synthetic |-> << <<>> >>,
   Signature |-> <<u2(1)>>,
   SourceFile |-> <<u2(1)>>,
   SourceDebugExtension |-> << <<100, 101, 98, 117, 103>>, <<>> >>,
   LineNumberTable |-> <<u2(1) \o u2(0) \o u2(1)>>,
   LocalVariableTable |-> <<u2(1) \o u2(0) \o u2(1) \o u2(1) \o u2(1) \o u2(0)>>,
   LocalVariableTypeTable |-> <<u2(1) \o u2(0) \o u2(1) \o u2(1) \o u2(1) \o u2(0)>>,
   Deprecated |-> << <<>> >>,
   RuntimeVisibleAnnotations |-> <<u2(1) \o u2(1) \o u2(0), u2(1) \o AnnotationAll>>,
   RuntimeInvisibleAnnotations |-> <<u2(1) \o u2(1) \o u2(0), u2(1) \o AnnotationAll>>,
   RuntimeVisibleParameterAnnotations |->
     <<u1(1) \o u2(0), u1(2) \o u2(1) \o u2(1) \o u2(0) \o u2(0)>>,
   RuntimeInvisibleParameterAnnotations |->
     <<u1(1) \o u2(0), u1(2) \o u2(1) \o u2(1) \o u2(0) \o u2(0)>>,
   RuntimeVisibleTypeAnnotations |->
     <<u2(1) \o <<19, 0>> \o u2(1) \o u2(0), TypeAnnotations3>>,
   RuntimeInvisibleTypeAnnotations |->
     <<u2(1) \o <<19, 0>> \o u2(1) \o u2(0), TypeAnnotations3>>,
   AnnotationDefault |-> << <<115>> \o u2(1), <<91>> \o u2(1) \o <<64>> \o u2(1) \o u2(0)>>,
   BootstrapMethods |-> <<u2(0), u2(1) \o u2(7) \o u2(2) \o u2(6) \o u2(6)>>,
   MethodParameters |-> <<u1(1) \o u2(1) \o u2(0)>>,
   Module |->
     <<u2(1) \o u2(0) \o u2(0) \o u2(0) \o u2(0) \o u2(0) \o u2(0) \o u2(0),
       u2(1) \o u2(0) \o u2(0)
         \o u2(1) \o u2(1) \o u2(0) \o u2(0)
         \o u2(1) \o u2(1) \o u2(0) \o u2(1) \o u2(1)
         \o u2(1) \o u2(1) \o u2(0) \o u2(0)
         \o u2(1) \o u2(7)
         \o u2(1) \o u2(7) \o u2(1) \o u2(7)>>,
   ModulePackages |-> <<u2(1) \o u2(1)>>,
   ModuleMainClass |-> <<u2(7)>>,
   ModuleHashes |-> <<u2(1) \o u2(0), u2(1) \o u2(1) \o u2(1) \o u2(2) \o <<170, 187>> >>,
   ModuleTarget |-> <<u2(1)>>,
   ModuleResolution |-> <<u2(0)>>,
   NestHost |-> <<u2(7)>>,
   NestMembers |-> <<u2(1) \o u2(7)>>,
   Record |-> <<u2(1) \o Component \o u2(0), u2(1) \o Component \o u2(1) \o push_attr(4, u2(6))>>,
   PermittedSubclasses |-> <<u2(1) \o u2(7)>>]

KnownNames == DOMAIN KnownName

\* The known names whose body grammar fixes its own length.
FixedNames == KnownNames \ {"SourceDebugExtension"}

\* Names that are no known attribute name: "UnknownAttr", "code", "Codes",
\* "Cod", "" and "CODE".
UnknownNames ==
  {<<85, 110, 107, 110, 111, 119, 110, 65, 116, 116, 114>>, <<99, 111, 100, 101>>, <<67, 111, 100, 101, 115>>, <<67, 111, 100>>, <<>>, <<67, 79, 68, 69>>}

(***************************************************************************)
(* The inputs.  A descriptor says how the buffer was built:                *)
(*   fam    the family                                                     *)
(*   pool   the pool entries written, count the count declared             *)
(*   level, name, body, delta   (attribute families) one attribute with    *)
(*          that name at that level, declared Len(body) + delta long       *)
(***************************************************************************)
MaxBuf == 4
MaxExtra == 2
MaxPayload == 2
MaxEntries == 3

SeqsUpTo(S, n) == UNION {[1..k -> S] : k \in 0..n}

Width(t) == IF t \in {5, 6} THEN 2 ELSE 1

RECURSIVE Widths(_)
Widths(pool) == IF pool = <<>> THEN 0 ELSE Width(Head(pool).t) + Widths(Tail(pool))

NoAttr == [level |-> "none", name |-> <<>>, key |-> "", body |-> <<>>, delta |-> 0]

\* One attribute named by pool entry 1.
AttrBytes(body, delta) ==
  push_attr_len(1, Len(body) + delta, body \o Fill(IF delta > 0 THEN delta ELSE 0))

AttrFile(level, nameBytes, body, delta) ==
  Header \o PoolBytes(8, AttrPool(nameBytes)) \o Body_at(level, AttrBytes(body, delta))

KnownAttrInputs ==
  {[desc |-> [fam |-> "attr", pool |-> AttrPool(KnownName[n]), count |-> 8, level |-> l,
              name |-> KnownName[n], key |-> n, body |-> WellFormed[n][i], delta |-> d],
    bytes |-> AttrFile(l, KnownName[n], WellFormed[n][i], d)] :
     <<l, n, i, d>> \in
       {x \in Levels \X KnownNames \X (1..2) \X (-1..MaxExtra) :
          /\ x[3] <= Len(WellFormed[x[2]])
          /\ Len(WellFormed[x[2]][x[3]]) + x[4] >= 0}}

PayloadBytes == {0, 255}

UnknownAttrInputs ==
  {[desc |-> [fam |-> "attr", pool |-> AttrPool(nm), count |-> 8, level |-> l,
              name |-> nm, key |-> "", body |-> p, delta |-> 0],
    bytes |-> AttrFile(l, nm, p, 0)] :
     <<l, nm, p>> \in Levels \X UnknownNames \X SeqsUpTo(PayloadBytes, MaxPayload)}

\* Everything after the pool of a class with no member and no attribute.
EmptyBody == ClassHead \o u2(0) \o u2(0) \o u2(0)

PoolFile(count, pool) == Header \o PoolBytes(count, pool) \o EmptyBody

PoolTags == {1, 3, 5, 6, 7, 15}

\* Pools of a few entries, the count declared right, one less or one more.
PoolInputs ==
  {[desc |-> [fam |-> "pool", pool |-> [k \in 1..Len(ts) |-> CanonEntry(ts[k])],
              count |-> 1 + Widths([k \in 1..Len(ts) |-> CanonEntry(ts[k])]) + cd]
             @@ NoAttr,
    bytes |-> PoolFile(1 + Widths([k \in 1..Len(ts) |-> CanonEntry(ts[k])]) + cd,
                       [k \in 1..Len(ts) |-> CanonEntry(ts[k])])] :
     <<ts, cd>> \in
       {x \in SeqsUpTo(PoolTags, MaxEntries) \X {-1, 0, 1} :
          1 + Widths([k \in 1..Len(x[1]) |-> CanonEntry(x[1][k])]) + x[2] >= 0}}

\* Every tag byte, as the entry after zero, one or two others, and after
\* an entry whose tag is none.
TagInputs ==
  {[desc |-> [fam |-> "tag", pool |-> pre \o <<CanonEntry(t)>>,
              count |-> 1 + Widths(pre \o <<CanonEntry(t)>>)] @@ NoAttr,
    bytes |-> PoolFile(1 + Widths(pre \o <<CanonEntry(t)>>), pre \o <<CanonEntry(t)>>)] :
     <<pre, t>> \in {<<>>, <<CanonEntry(5)>>, <<CanonEntry(1), CanonEntry(12)>>, <<CanonEntry(13)>>}
                       \X (0..255)}

Replace(b, p, v) == [b EXCEPT ![p + 1] = v]

MutBytes == {0, 1, 255}

\* A well-formed class-level attribute input with one byte after the pool
\* replaced.
MutInputs ==
  {[desc |-> [fam |-> "mut", pool |-> AttrPool(KnownName[n]), count |-> 8, level |-> "class",
              name |-> KnownName[n], key |-> n, body |-> WellFormed[n][i], delta |-> 0],
    bytes |-> Replace(AttrFile("class", KnownName[n], WellFormed[n][i], 0), p, v)] :
     <<n, i, p, v>> \in
       {x \in KnownNames \X (1..2) \X (0..200) \X MutBytes :
          /\ x[2] <= Len(WellFormed[x[1]])
          /\ x[3] >= Len(Header \o PoolBytes(8, AttrPool(KnownName[x[1]])))
          /\ x[3] < Len(AttrFile("class", KnownName[x[1]], WellFormed[x[1]][x[2]], 0))}}

\* A well-formed attribute input cut short.
TruncInputs ==
  {[desc |-> [fam |-> "trunc", pool |-> AttrPool(KnownName[n]), count |-> 8, level |-> l,
              name |-> KnownName[n], key |-> n, body |-> WellFormed[n][1], delta |-> 0],
    bytes |-> SubSeq(AttrFile(l, KnownName[n], WellFormed[n][1], 0), 1, k)] :
     <<l, n, k>> \in
       {x \in {"class", "code"} \X KnownNames \X (0..200) :
          /\ x[3] >= Len(Header \o PoolBytes(8, AttrPool(KnownName[x[2]]))) - 3
          /\ x[3] < Len(AttrFile(x[1], KnownName[x[2]], WellFormed[x[2]][1], 0))}}

\* A StackMapTable in a Code attribute with one frame of each frame_type,
\* the type byte alone or before seven zero bytes.
FrameInputs ==
  {[desc |-> [fam |-> "frame", pool |-> AttrPool(KnownName.StackMapTable), count |-> 8,
              level |-> "code", name |-> KnownName.StackMapTable, key |-> "StackMapTable",
              body |-> u2(1) \o <<ft>> \o rest, delta |-> 0],
    bytes |-> AttrFile("code", KnownName.StackMapTable, u2(1) \o <<ft>> \o rest, 0)] :
     <<ft, rest>> \in (0..255) \X {<<>>, <<0, 0, 0, 0, 0, 0, 0>>}}

\* build_min_class of benches/classfile_parse.rs, its literals made
\* parameters: a and b are the bytes of the two Utf8 constants.
build_min_class(minor, major, a, b, access_flags, this_class, super_class) ==
  <<202, 254, 186, 190>> \o u2(minor) \o u2(major)
    \o u2(5) \o cp_utf8(a) \o cp_utf8(b) \o (<<7>> \o u2(1)) \o (<<7>> \o u2(2))
    \o u2(access_flags) \o u2(this_class) \o u2(super_class)
    \o u2(0) \o u2(0) \o u2(0) \o u2(0)

\* Utf8 payloads and the strings they encode: "Test", "java/lang/Object",
\* "", and "\u{e9}A" (C3 A9 41).
MinStrings ==
  {[b |-> <<84, 101, 115, 116>>, s |-> <<84, 101, 115, 116>>],
   [b |-> <<106, 97, 118, 97, 47, 108, 97, 110, 103, 47, 79, 98, 106, 101, 99, 116>>,
    s |-> <<106, 97, 118, 97, 47, 108, 97, 110, 103, 47, 79, 98, 106, 101, 99, 116>>],
   [b |-> <<>>, s |-> <<>>],
   [b |-> <<195, 169, 65>>, s |-> <<233, 65>>]}

MinVersions == {<<0, 52>>, <<3, 45>>, <<65535, 65>>}

MinU16 == {0, 3, 4, 33, 258, 65535}

\* The minimal class files: the header fields are any u16, whether or not
\* this_class and super_class name a Class constant.
MinInputs ==
  {[desc |-> [fam |-> "min",
              pool |-> <<Entry(1, cp_utf8(a.b), [tag |-> "Utf8", s |-> a.s]),
                         Entry(1, cp_utf8(b.b), [tag |-> "Utf8", s |-> b.s]),
                         Entry(7, <<7>> \o u2(1), [tag |-> "Class", name_index |-> 1]),
                         Entry(7, <<7>> \o u2(2), [tag |-> "Class", name_index |-> 2])>>,
              count |-> 5, minor_version |-> v[1], major_version |-> v[2],
              access_flags |-> h[1], this_class |-> h[2], super_class |-> h[3]] @@ NoAttr,
    bytes |-> build_min_class(v[1], v[2], a.b, b.b, h[1], h[2], h[3])] :
     <<v, a, b, h>> \in
       MinVersions \X MinStrings \X MinStrings
         \X {x \in MinU16 \X MinU16 \X MinU16 :
               x[1] \in {33, 65535} /\ x[2] \in {0, 3, 258} /\ x[3] \in {4, 65535}}}

\* verification_type_info items as written and as decoded: Top,
\* Object(7) and Uninitialized(258).
VtiItems ==
  {[b |-> <<0>>, x |-> [vti |-> "Top"]],
   [b |-> <<7, 0, 7>>, x |-> [vti |-> "Object", index |-> 7]],
   [b |-> <<8, 1, 2>>, x |-> [vti |-> "Uninitialized", offset |-> 258]]}

FrameDeltas == {0, 258, 65535}

VtiBytes(items) == Cat([k \in 1..Len(items) |-> items[k].b])

\* The bytes of one stack map frame of type ft as the class-file format
\* lays it out; a reserved type (128..246) is written with its offset.
FrameBytes(ft, od, locals, stack) ==
  IF ft <= 63 THEN <<ft>>
  ELSE IF ft <= 127 THEN <<ft>> \o VtiBytes(stack)
  ELSE IF ft <= 246 THEN <<ft>> \o u2(od)
  ELSE IF ft = 247 THEN <<ft>> \o u2(od) \o VtiBytes(stack)
  ELSE IF ft <= 251 THEN <<ft>> \o u2(od)
  ELSE IF ft <= 254 THEN <<ft>> \o u2(od) \o VtiBytes(locals)
  ELSE <<ft>> \o u2(od) \o u2(Len(locals)) \o VtiBytes(locals)
         \o u2(Len(stack)) \o VtiBytes(stack)

\* The frames written for a frame type: the lists as long as the type says.
FrameShapes(ft) ==
  IF ft <= 63 THEN {<<0, <<>>, <<>> >>}
  ELSE IF ft <= 127 THEN {<<0, <<>>, <<v>> >> : v \in VtiItems}
  ELSE IF ft <= 246 THEN {<<0, <<>>, <<>> >>}
  ELSE IF ft = 247 THEN {<<d, <<>>, <<v>> >> : <<d, v>> \in FrameDeltas \X VtiItems}
  ELSE IF ft <= 251 THEN {<<d, <<>>, <<>> >> : d \in FrameDeltas}
  ELSE IF ft <= 254
    THEN {<<d, l, <<>> >> : <<d, l>> \in FrameDeltas \X [1..(ft - 251) -> VtiItems]}
  ELSE {<<d, l, st>> : <<d, l, st>> \in {258} \X SeqsUpTo(VtiItems, 2) \X SeqsUpTo(VtiItems, 2)}

\* A StackMapTable in a Code attribute holding one well-laid-out frame.
ShapeInputs ==
  {[desc |-> [fam |-> "shape", pool |-> AttrPool(KnownName.StackMapTable), count |-> 8,
              level |-> "code", name |-> KnownName.StackMapTable, key |-> "StackMapTable",
              body |-> u2(1) \o FrameBytes(x[1], x[2][1], x[2][2], x[2][3]), delta |-> 0,
              frame_type |-> x[1], offset_delta |-> x[2][1],
              locals |-> [k \in 1..Len(x[2][2]) |-> x[2][2][k].x],
              stack |-> [k \in 1..Len(x[2][3]) |-> x[2][3][k].x]],
    bytes |-> AttrFile("code", KnownName.StackMapTable,
                       u2(1) \o FrameBytes(x[1], x[2][1], x[2][2], x[2][3]), 0)] :
     x \in UNION {{<<ft, sh>> : sh \in FrameShapes(ft)} : ft \in 0..255}}

\* The pool of the nesting inputs: 1 "Code", 2 "Record", 3 "LineNumberTable",
\* 4 "LocalVariableTable", 5 "LocalVariableTypeTable", 6 "StackMapTable",
\* 7 Class -> 1, 8 "ConstantValue", 9 "Signature", 10 "Deprecated".
NestPool ==
  <<Utf8Entry(KnownName.Code), Utf8Entry(KnownName.Record),
    Utf8Entry(KnownName.LineNumberTable), Utf8Entry(KnownName.LocalVariableTable),
    Utf8Entry(KnownName.LocalVariableTypeTable), Utf8Entry(KnownName.StackMapTable),
    CanonEntry(7), Utf8Entry(KnownName.ConstantValue), Utf8Entry(KnownName.Signature),
    Utf8Entry(KnownName.Deprecated)>>

\* An attribute of an input: the index of its name, its body and the
\* AttributeInfo the body encodes.
Item(idx, b, x) == [idx |-> idx, b |-> b, x |-> x]

\* The attributes written inside Code: a LineNumberTable and two local
\* variable tables of one entry, and a StackMapTable of none.
CodeItems ==
  {Item(3, u2(1) \o u2(0) \o u2(1), [attr |-> "LineNumberTable", items |-> << <<0, 1>> >>]),
   Item(4, u2(1) \o u2(0) \o u2(1) \o u2(8) \o u2(9) \o u2(0),
        [attr |-> "LocalVariableTable", items |-> << <<0, 1, 8, 9, 0>> >>]),
   Item(5, u2(1) \o u2(0) \o u2(1) \o u2(8) \o u2(9) \o u2(0),
        [attr |-> "LocalVariableTypeTable", items |-> << <<0, 1, 8, 9, 0>> >>]),
   Item(6, u2(0), [attr |-> "StackMapTable", table |-> [entries |-> <<>>]])}

\* The attributes written after Code in the method's own list.
MethodItems == {Item(10, <<>>, [attr |-> "Deprecated"])}

\* A u2 count and the attributes, each written by push_attr.
AttrList(items) ==
  u2(Len(items)) \o Cat([k \in 1..Len(items) |-> push_attr(items[k].idx, items[k].b)])

Decodes(items) == [k \in 1..Len(items) |-> items[k].x]

\* The body of a Code attribute of one instruction (return) and the nested
\* attributes.
CodeBody(nested) == u2(1) \o u2(1) \o u4(1) \o <<177>> \o u2(0) \o AttrList(nested)

MaxNested == 3

\* A class whose one method has a Code attribute holding the nested
\* attributes, followed in the method's list by the attributes after.
NestedInputs ==
  {[desc |-> [fam |-> "nested", pool |-> NestPool, count |-> 11, level |-> "method",
              name |-> KnownName.Code, key |-> "Code", body |-> CodeBody(nested), delta |-> 0,
              nested |-> Decodes(nested), after |-> Decodes(after),
              lengths |-> [k \in 1..Len(nested) |-> Len(nested[k].b)]],
    bytes |-> Header \o PoolBytes(11, NestPool) \o ClassHead \o u2(0) \o u2(1) \o Member
                \o AttrList(<<Item(1, CodeBody(nested), [attr |-> "Code"])>> \o after)
                \o u2(0)] :
     <<nested, after>> \in SeqsUpTo(CodeItems, MaxNested) \X SeqsUpTo(MethodItems, 1)}

\* The attributes written in a record component.
ComponentItems ==
  {Item(8, u2(7), [attr |-> "ConstantValue", index |-> 7]),
   Item(9, u2(9), [attr |-> "Signature", index |-> 9]),
   Item(10, <<>>, [attr |-> "Deprecated"])}

MaxComponentAttrs == 2

\* The k-th component written: name_index 7 + k, descriptor_index 9 and its
\* attribute list.
ComponentBytes(k, items) == u2(7 + k) \o u2(9) \o AttrList(items)

\* A class whose one attribute is a Record of one or two components, each
\* with its own attribute list (the second of at most one attribute).
RecordInputs ==
  {[desc |-> [fam |-> "components", pool |-> NestPool, count |-> 11, level |-> "class",
              name |-> KnownName.Record, key |-> "Record",
              body |-> u2(Len(cs)) \o Cat([k \in 1..Len(cs) |-> ComponentBytes(k, cs[k])]),
              delta |-> 0,
              components |-> [k \in 1..Len(cs) |->
                                [name_index |-> 7 + k, descriptor_index |-> 9,
                                 attributes |-> Decodes(cs[k])]]],
    bytes |-> Header \o PoolBytes(11, NestPool) \o ClassHead \o u2(0) \o u2(0) \o u2(1)
                \o push_attr(2, u2(Len(cs))
                                  \o Cat([k \in 1..Len(cs) |-> ComponentBytes(k, cs[k])]))] :
     cs \in {<<a>> : a \in SeqsUpTo(ComponentItems, MaxComponentAttrs)}
              \cup {<<a, b>> : <<a, b>> \in SeqsUpTo(ComponentItems, MaxComponentAttrs)
                                              \X SeqsUpTo(ComponentItems, 1)}}

\* Bytes of Utf8 payloads: 'A', a continuation byte, the lead bytes of a
\* two- and a three-byte sequence, a second byte valid only after some
\* leads, and a byte no UTF-8 text holds.
Utf8Bytes == {65, 128, 160, 195, 224, 255}

MaxUtf8 == 3

\* A pool of a Utf8 constant with any payload and a Class constant after it.
Utf8Inputs ==
  {[desc |-> [fam |-> "utf8",
              pool |-> <<Entry(1, cp_utf8(p), [tag |-> "Utf8", s |-> from_utf8_lossy(p)]),
                         CanonEntry(7)>>,
              count |-> 3, payload |-> p] @@ NoAttr,
    bytes |-> PoolFile(3, <<Entry(1, cp_utf8(p), [tag |-> "Utf8", s |-> from_utf8_lossy(p)]),
                            CanonEntry(7)>>)] :
     p \in SeqsUpTo(Utf8Bytes, MaxUtf8)}

\* Name indexes that resolve to no Utf8 constant of AttrPool: 0, an
\* Integer, a Class, the declared count, one past it and the largest u16.
UnresolvedIndexes == {0, 6, 7, 8, 9, 65535}

\* What follows the name_index: every prefix of a length of 2 and two
\* payload bytes, and a length of 0xFFFFFFFF with no payload.
AfterName ==
  {SubSeq(<<0, 0, 0, 2, 170, 187>>, 1, k) : k \in 0..6} \cup {<<255, 255, 255, 255>>}

\* A class whose one attribute has a name_index that does not resolve, the
\* buffer ending after the bytes that follow it.
BadNameInputs ==
  {[desc |-> [fam |-> "badname", pool |-> AttrPool(<<88>>), count |-> 8,
              name_index |-> ix, after |-> tail] @@ NoAttr,
    bytes |-> Header \o PoolBytes(8, AttrPool(<<88>>)) \o ClassHead \o u2(0) \o u2(0)
                \o u2(1) \o u2(ix) \o tail] :
     <<ix, tail>> \in UnresolvedIndexes \X AfterName}

\* The u2 operands written after a tag.
ElementOperands == {258, 65535}

\* An element value of tag t as laid out in a class file, its u2 operands x
\* and 65535 - x: an annotation ('@') has one pair, an array ('[') two
\* values; a tag that is no element-value tag is followed by one u2.
ElementBytes(t, x) ==
  CASE t = 101 -> <<t>> \o u2(x) \o u2(65535 - x)
    [] t = 64 -> <<t>> \o u2(x) \o u2(1) \o u2(65535 - x) \o <<115>> \o u2(x)
    [] t = 91 -> <<t>> \o u2(2) \o <<73>> \o u2(x) \o <<99>> \o u2(65535 - x)
    [] OTHER -> <<t>> \o u2(x)

ElementWraps == {"top", "array", "pair"}

\* The element value alone, as the second value of an array, or as the
\* value of the pair of an annotation.
WrapBytes(wrap, e) ==
  CASE wrap = "top" -> e
    [] wrap = "array" -> <<91>> \o u2(2) \o <<90>> \o u2(1) \o e
    [] wrap = "pair" -> <<64>> \o u2(7) \o u2(1) \o u2(3) \o e

\* An AnnotationDefault of a method whose element value has, or nests, an
\* element value of every tag byte.
ElementInputs ==
  {[desc |-> [fam |-> "element", pool |-> AttrPool(KnownName.AnnotationDefault), count |-> 8,
              level |-> "method", name |-> KnownName.AnnotationDefault,
              key |-> "AnnotationDefault", body |-> WrapBytes(w, ElementBytes(t, x)),
              delta |-> 0, tag |-> t, operand |-> x, wrap |-> w],
    bytes |-> AttrFile("method", KnownName.AnnotationDefault, WrapBytes(w, ElementBytes(t, x)), 0)] :
     <<t, x, w>> \in (0..255) \X ElementOperands \X ElementWraps}

\* The target_info of target_type tt as laid out in a class file, its u2
\* operands x and 65535 - x and its u1 operands x % 256 and 255 - (x % 256);
\* a localvar table has two entries; nothing for a target_type that has no
\* target_info.
TargetBytes(tt, x) ==
  CASE tt \in {0, 1, 22} -> u1(x % 256)
    [] tt \in {16, 23, 66, 67, 68, 69, 70} -> u2(x)
    [] tt \in {17, 18} -> u1(x % 256) \o u1(255 - (x % 256))
    [] tt \in {64, 65} ->
         u2(2) \o u2(x) \o u2(1) \o u2(2) \o u2(3) \o u2(4) \o u2(65535 - x)
    [] tt \in {71, 72, 73, 74, 75} -> u2(x) \o u1(x % 256)
    [] OTHER -> <<>>

\* One type annotation: target_type, target_info, a type path of one entry,
\* type_index and no pair.
TypeAnnotationBytes(tt, x) ==
  u2(1) \o u1(tt) \o TargetBytes(tt, x) \o u1(1) \o u1(3) \o u1(0) \o u2(x) \o u2(0)

TypeAnnotationKeys == {"RuntimeVisibleTypeAnnotations", "RuntimeInvisibleTypeAnnotations"}

\* A field with a type-annotations attribute of one annotation, of every
\* target_type byte.
TargetInputs ==
  {[desc |-> [fam |-> "target", pool |-> AttrPool(KnownName[n]), count |-> 8,
              level |-> "field", name |-> KnownName[n], key |-> n,
              body |-> TypeAnnotationBytes(tt, x), delta |-> 0,
              target_type |-> tt, operand |-> x],
    bytes |-> AttrFile("field", KnownName[n], TypeAnnotationBytes(tt, x), 0)] :
     <<n, tt, x>> \in TypeAnnotationKeys \X (0..255) \X ElementOperands}

\* The places of a class file that hold a version or a pool index no
\* attribute is named by.
IndexPlaces ==
  {"minor_version", "major_version", "this_class", "super_class", "interface",
   "field_name", "field_descriptor", "method_name", "method_descriptor",
   "class_name", "name_and_type", "constant_value", "method_value"}

\* Index values of the pool of IndexPool: 0, a Utf8, the Long, its hole, a
\* Class, the declared count and the largest u16.
IndexValues == {0, 1, 2, 3, 4, 6, 65535}

\* 1 Utf8 "ConstantValue", 2 Long (3 its hole), 4 Class -> f.class_name,
\* 5 NameAndType; count 6.
IndexPool(f) ==
  <<Utf8Entry(KnownName.ConstantValue), CanonEntry(5),
    Entry(7, <<7>> \o u2(f.class_name), [tag |-> "Class", name_index |-> f.class_name]),
    Entry(12, <<12>> \o u2(f.name_and_type) \o u2(f.name_and_type),
          [tag |-> "NameAndType", name_index |-> f.name_and_type,
           descriptor_index |-> f.name_and_type])>>

\* A class with one interface and one field and one method, each holding a
\* ConstantValue attribute, every version and index but the attributes'
\* name_index taken from f.
IndexFile(f) ==
  <<202, 254, 186, 190>> \o u2(f.minor_version) \o u2(f.major_version)
    \o PoolBytes(6, IndexPool(f))
    \o u2(33) \o u2(f.this_class) \o u2(f.super_class) \o u2(1) \o u2(f.interface)
    \o u2(1) \o u2(1) \o u2(f.field_name) \o u2(f.field_descriptor)
       \o u2(1) \o push_attr(1, u2(f.constant_value))
    \o u2(1) \o u2(1) \o u2(f.method_name) \o u2(f.method_descriptor)
       \o u2(1) \o push_attr(1, u2(f.method_value))
    \o u2(0)

\* One place, or every place, holds the value v; the others hold 1.
IndexChoices ==
  {[p \in IndexPlaces |-> IF at = "all" \/ p = at THEN v ELSE 1] :
     <<at, v>> \in (IndexPlaces \cup {"all"}) \X IndexValues}

IndexInputs ==
  {[desc |-> [fam |-> "index", pool |-> IndexPool(f), count |-> 6, places |-> f] @@ NoAttr,
    bytes |-> IndexFile(f)] : f \in IndexChoices}

\* 1 "Code", 2 "Record", 3 "AnnotationDefault"; count 4.
DeepPool ==
  <<Utf8Entry(KnownName.Code), Utf8Entry(KnownName.Record),
    Utf8Entry(KnownName.AnnotationDefault)>>

MaxDepth == 3

\* What is nested in what, outermost first: Code and Record attributes,
\* then arrays ("[") and annotations ("@") of an AnnotationDefault.
DeepShapes ==
  {sh \in SeqsUpTo({"Code", "Record", "[", "@"}, MaxDepth) :
     \A k \in 1..Len(sh) : \A j \in 1..Len(sh) :
       (k < j /\ sh[k] \in {"[", "@"}) => sh[j] \in {"[", "@"}}

\* An element value nested as shape says: an array of one value, an
\* annotation of one pair; leaf is the innermost value.
RECURSIVE ElementNest(_, _)
ElementNest(shape, leaf) ==
  IF shape = <<>> THEN leaf
  ELSE IF Head(shape) = "[" THEN <<91>> \o u2(1) \o ElementNest(Tail(shape), leaf)
  ELSE <<64>> \o u2(1) \o u2(1) \o u2(1) \o ElementNest(Tail(shape), leaf)

\* An attribute list nested as shape says: a Code with no exception, a
\* Record of one component, an AnnotationDefault.
RECURSIVE AttrNest(_, _)
AttrNest(shape, leaf) ==
  IF shape = <<>> THEN u2(0)
  ELSE IF Head(shape) = "Code" THEN
    u2(1) \o push_attr(1, u2(1) \o u2(1) \o u4(1) \o <<177>> \o u2(0)
                             \o AttrNest(Tail(shape), leaf))
  ELSE IF Head(shape) = "Record" THEN
    u2(1) \o push_attr(2, u2(1) \o Component \o AttrNest(Tail(shape), leaf))
  ELSE u2(1) \o push_attr(3, ElementNest(shape, leaf))

\* A class whose attribute list nests as the shape says, the innermost
\* element value being a Const or missing from the attribute's bytes.
DeepInputs ==
  {[desc |-> [fam |-> "deep", pool |-> DeepPool, count |-> 4, shape |-> sh, leaf |-> leaf]
               @@ NoAttr,
    bytes |-> Header \o PoolBytes(4, DeepPool) \o ClassHead \o u2(0) \o u2(0)
                \o AttrNest(sh, leaf)] :
     <<sh, leaf>> \in
       {x \in DeepShapes \X {<<115, 0, 1>>, <<>>} :
          x[2] = <<>> => (x[1] # <<>> /\ x[1][Len(x[1])] \in {"[", "@"})}}

\* Two bytes and the u16 they are.
U2Vectors == {[b |-> <<1, 2>>, u |-> 258], [b |-> <<255, 0>>, u |-> 65280]}

\* Four bytes, the u32 they are (-1 where it is 2^31 or more) and the i32
\* they are.
U4Vectors ==
  {[b |-> <<0, 0, 0, 1>>, u |-> 1, i |-> 1],
   [b |-> <<0, 0, 1, 0>>, u |-> 256, i |-> 256],
   [b |-> <<1, 2, 3, 4>>, u |-> 16909060, i |-> 16909060],
   [b |-> <<127, 255, 255, 255>>, u |-> 2147483647, i |-> 2147483647],
   [b |-> <<128, 0, 0, 0>>, u |-> -1, i |-> -2147483647 - 1],
   [b |-> <<255, 255, 255, 133>>, u |-> -1, i |-> -123],
   [b |-> <<255, 255, 255, 255>>, u |-> -1, i |-> -1]}

\* Eight bytes and the i64 they are: 1, 2^32 + 2, 2^31, 2^63 - 1, -1,
\* -2^63, -(2^63 - 1) and -(2^33 - 3).
I64Vectors ==
  {[b |-> <<0, 0, 0, 0, 0, 0, 0, 1>>, negative |-> FALSE, magnitude |-> <<0, 0, 0, 1>>],
   [b |-> <<0, 0, 0, 1, 0, 0, 0, 2>>, negative |-> FALSE, magnitude |-> <<0, 1, 0, 2>>],
   [b |-> <<0, 0, 0, 0, 128, 0, 0, 0>>, negative |-> FALSE, magnitude |-> <<0, 0, 32768, 0>>],
   [b |-> <<127, 255, 255, 255, 255, 255, 255, 255>>, negative |-> FALSE,
    magnitude |-> <<32767, 65535, 65535, 65535>>],
   [b |-> <<255, 255, 255, 255, 255, 255, 255, 255>>, negative |-> TRUE,
    magnitude |-> <<0, 0, 0, 1>>],
   [b |-> <<128, 0, 0, 0, 0, 0, 0, 0>>, negative |-> TRUE, magnitude |-> <<32768, 0, 0, 0>>],
   [b |-> <<128, 0, 0, 0, 0, 0, 0, 1>>, negative |-> TRUE,
    magnitude |-> <<32767, 65535, 65535, 65535>>],
   [b |-> <<255, 255, 255, 254, 0, 0, 0, 3>>, negative |-> TRUE,
    magnitude |-> <<0, 1, 65535, 65533>>]}

\* 1 Class with the two bytes, 2 Float and 3 Integer with the four bytes,
\* 4 Long with the eight bytes (5 its hole); count 6.
NumberPool(a, b, c) ==
  <<Entry(7, <<7>> \o a.b, [tag |-> "Class", name_index |-> a.u]),
    Entry(4, <<4>> \o b.b,
          [tag |-> "Float", bits |-> u32_from_be_bytes(b.b[1], b.b[2], b.b[3], b.b[4])]),
    Entry(3, <<3>> \o b.b, [tag |-> "Integer", value |-> b.i]),
    Entry(5, <<5>> \o c.b,
          [tag |-> "Long", value |-> [negative |-> c.negative, magnitude |-> c.magnitude]])>>

NumberInputs ==
  {[desc |-> [fam |-> "number", pool |-> NumberPool(a, b, c), count |-> 6,
              two |-> a, four |-> b, eight |-> c] @@ NoAttr,
    bytes |-> PoolFile(6, NumberPool(a, b, c))] :
     <<a, b, c>> \in U2Vectors \X U4Vectors \X I64Vectors}

CountPlaces == {"interfaces", "fields", "methods", "attributes"}

\* The count a class file declares at place p: the number of items that
\* follow it, 65535 at the place `huge`.
CountAt(p, huge) ==
  IF p = huge THEN 65535 ELSE IF p = "attributes" THEN 0 ELSE 1

\* A class with one interface, one field and one method, neither with
\* attributes, and no attributes of its own; one of its counts may declare
\* 65535 items.
CountInputs ==
  {[desc |-> [fam |-> "counts", pool |-> <<CanonEntry(7)>>, count |-> 2, huge |-> h] @@ NoAttr,
    bytes |-> Header \o PoolBytes(2, <<CanonEntry(7)>>)
                \o u2(33) \o u2(1) \o u2(0)
                \o u2(CountAt("interfaces", h)) \o u2(1)
                \o u2(CountAt("fields", h)) \o u2(2) \o u2(1) \o u2(1) \o u2(0)
                \o u2(CountAt("methods", h)) \o u2(1) \o u2(1) \o u2(1) \o u2(0)
                \o u2(CountAt("attributes", h))] :
     h \in CountPlaces \cup {"none"}}

TailBytes == {0, 255}

MaxTail == 2

\* The buffers a tail is appended to: a class with one attribute of each
\* known name, its length as declared, and the classes with an interface, a
\* field and a method (those with a count of 65535 do not decode).
TailBases ==
  {d \in KnownAttrInputs :
     d.desc.level = "class" /\ d.desc.delta = 0 /\ d.desc.body = WellFormed[d.desc.key][1]}
    \cup CountInputs

\* A buffer followed by one to MaxTail bytes.
TailInputs ==
  {[desc |-> [fam |-> "tail", pool |-> x[1].desc.pool, count |-> x[1].desc.count,
              base |-> x[1].bytes, tail |-> x[2]] @@ NoAttr,
    bytes |-> x[1].bytes \o x[2]] :
     x \in TailBases \X (SeqsUpTo(TailBytes, MaxTail) \ {<<>>})}

MagicBytes == {0, 202, 254, 186, 190}

\* Four bytes, alone or before the rest of an empty class.
MagicInputs ==
  {[desc |-> [fam |-> "magic", pool |-> <<>>, count |-> 1] @@ NoAttr,
    bytes |-> m \o tail] :
     <<m, tail>> \in [1..4 -> MagicBytes] \X {<<>>, <<0>>, SubSeq(PoolFile(1, <<>>), 5, 24)}}

Inputs ==
  KnownAttrInputs \cup UnknownAttrInputs \cup PoolInputs \cup TagInputs \cup MutInputs
    \cup TruncInputs \cup MagicInputs \cup FrameInputs \cup MinInputs
    \cup ShapeInputs \cup NestedInputs \cup RecordInputs \cup Utf8Inputs
    \cup BadNameInputs \cup ElementInputs \cup TargetInputs \cup IndexInputs
    \cup DeepInputs \cup NumberInputs \cup CountInputs \cup TailInputs

(***************************************************************************)
(* The state machines                                                      *)
(***************************************************************************)
NotRun == [status |-> "none"]

\* A finished call: the Result without the reader, and the history.
Finished(res) ==
  IF res.ok THEN [status |-> "done", ok |-> TRUE, v |-> res.v, gh |-> res.r.gh]
  ELSE [status |-> "done", ok |-> FALSE, e |-> res.e, gh |-> res.r.gh]

\* ClassFile::parse(bytes) is called on one buffer, then the pool of a
\* decoded class is looked up.
Init ==
  /\ \E d \in Inputs : inp = d.desc /\ bytes = d.bytes
  /\ outcome = NotRun
  /\ lookup = NotRun
  /\ cur = NotRun
  /\ last = NotRun
  /\ calls = <<>>

Parse ==
  /\ outcome = NotRun
  /\ \E res \in {ClassFile_parse(bytes)} : outcome' = Finished(res)
  /\ UNCHANGED <<cur, last, inp, bytes, lookup, calls>>

Decoded == outcome # NotRun /\ outcome.ok

\* The indexes looked up: around the pool, and the largest u16.
Indexes == (0..(inp.count + 2)) \cup {65535}

\* get and get_utf8 take &self and change nothing, so the lookup after a
\* lookup finds what the first one would: one lookup is made on each decoded
\* class.
Get ==
  /\ Decoded
  /\ lookup = NotRun
  /\ \E index \in Indexes :
       lookup' = [status |-> "done", op |-> "get", index |-> index,
                  res |-> get(outcome.v.constant_pool, index)]
  /\ UNCHANGED <<cur, last, inp, bytes, outcome, calls>>

GetUtf8 ==
  /\ Decoded
  /\ lookup = NotRun
  /\ \E index \in Indexes :
       lookup' = [status |-> "done", op |-> "get_utf8", index |-> index,
                  res |-> get_utf8(outcome.v.constant_pool, index)]
  /\ UNCHANGED <<cur, last, inp, bytes, outcome, calls>>

Next == Parse \/ Get \/ GetUtf8

Spec == Init /\ [][Next]_vars

\* A Reader over a small buffer, and any sequence of reads on it.
ReaderBytes == {0, 1, 255}

ReaderInit ==
  /\ \E b \in SeqsUpTo(ReaderBytes, MaxBuf) : cur = Reader_new(Slice(b, 0), Gh0)
  /\ last = NotRun
  /\ inp = NotRun
  /\ bytes = <<>>
  /\ outcome = NotRun
  /\ lookup = NotRun
  /\ calls = <<>>

\* What a call found and what it returned.
Called(op, req, res) ==
  [status |-> "done", op |-> op, req |-> req, rem |-> remaining(cur), pos |-> cur.pos,
   hw |-> cur.gh.hw, data |-> cur.data,
   res |-> IF res.ok THEN OkV(res.v) ELSE ErrV(res.e)]

CallReadU1 ==
  /\ \E res \in {read_u1(cur)} : cur' = res.r /\ last' = Called("read_u1", 1, res)
  /\ UNCHANGED <<inp, bytes, outcome, lookup, calls>>

CallReadU2 ==
  /\ \E res \in {read_u2(cur)} : cur' = res.r /\ last' = Called("read_u2", 2, res)
  /\ UNCHANGED <<inp, bytes, outcome, lookup, calls>>

CallReadU4 ==
  /\ \E res \in {read_u4(cur)} : cur' = res.r /\ last' = Called("read_u4", 4, res)
  /\ UNCHANGED <<inp, bytes, outcome, lookup, calls>>

\* read_bytes(len) for the lengths up to one past the buffer, and for a
\* length no buffer has.
CallReadBytes ==
  /\ \E len \in (0..(Len(cur.data.b) + 1)) \cup {2147483647} :
       \E res \in {read_bytes(cur, len)} : cur' = res.r /\ last' = Called("read_bytes", len, res)
  /\ UNCHANGED <<inp, bytes, outcome, lookup, calls>>

ReaderNext == CallReadU1 \/ CallReadU2 \/ CallReadU4 \/ CallReadBytes

ReaderSpec == ReaderInit /\ [][ReaderNext]_vars

(***************************************************************************)
(* Two calls of ClassFile::parse running at once, each on its own buffer.  *)
(* A call is its buffer, its Reader, the place it has reached in parse     *)
(* (pc), the locals of parse assigned so far and, once it has returned,    *)
(* its result.  A step of a call is one statement of parse.                *)
(***************************************************************************)
Threads == {1, 2}

\* The call as it starts: let mut r = Reader::new(bytes);
Call0(buf) ==
  [buf |-> buf, r |-> Reader_new(Slice(buf, 0), Gh0), pc |-> "magic", n |-> 0, count |-> 0,
   minor_version |-> 0, major_version |-> 0, constant_pool |-> [entries |-> <<None>>],
   access_flags |-> 0, this_class |-> 0, super_class |-> 0, interfaces |-> <<>>,
   fields |-> <<>>, methods |-> <<>>, result |-> NotRun]

\* The call returns res: the Ok at the end of parse, or `?` on an Err (which
\* may come from a sub-reader: only its history comes back).
Return(c, res) ==
  [c EXCEPT !.pc = "done", !.r = IF res.ok THEN res.r ELSE Resume(c.r, res.r.gh),
            !.result = Finished(res)]

\* let <field> = r.read_u2()?; then the statement at pc next.
StepU2(c, field, next) ==
  Bind([x \in {read_u2(c.r)} |-> IF ~x.ok THEN Return(c, x) ELSE
  [c EXCEPT ![field] = x.v, !.r = x.r, !.pc = next]])

\* The next statement of the call c.
StepOf(c) ==
  CASE c.pc = "magic" ->
         Bind([magic \in {read_magic(c.r)} |-> IF ~magic.ok THEN Return(c, magic) ELSE
         [c EXCEPT !.r = magic.r, !.pc = "minor_version"]])
    [] c.pc = "minor_version" -> StepU2(c, "minor_version", "major_version")
    [] c.pc = "major_version" -> StepU2(c, "major_version", "constant_pool_count")
    [] c.pc = "constant_pool_count" ->
         Bind([count \in {read_u2(c.r)} |-> IF ~count.ok THEN Return(c, count) ELSE
         [c EXCEPT !.count = count.v, !.r = count.r,
                   !.pc = IF 1 < count.v THEN "constant_pool_entry" ELSE "access_flags"]])
    [] c.pc = "constant_pool_entry" ->
         \* one turn of `while i < count`, i being entries.len()
         Bind([e \in {parse_constant_pool_loop(c.r, Len(c.constant_pool.entries) + 1,
                                               Len(c.constant_pool.entries),
                                               c.constant_pool.entries)} |->
           IF ~e.ok THEN Return(c, e) ELSE
         [c EXCEPT !.constant_pool = e.v, !.r = e.r,
                   !.pc = IF Len(e.v.entries) < c.count THEN "constant_pool_entry"
                          ELSE "access_flags"]])
    [] c.pc = "access_flags" -> StepU2(c, "access_flags", "this_class")
    [] c.pc = "this_class" -> StepU2(c, "this_class", "super_class")
    [] c.pc = "super_class" -> StepU2(c, "super_class", "interfaces")
    [] c.pc = "interfaces" ->
         Bind([interfaces \in {counted_u2_items(c.r, 1)} |->
           IF ~interfaces.ok THEN Return(c, interfaces) ELSE
         [c EXCEPT !.interfaces = interfaces.v, !.r = interfaces.r, !.pc = "fields_count"]])
    [] c.pc = "fields_count" ->
         Bind([n \in {read_u2(c.r)} |-> IF ~n.ok THEN Return(c, n) ELSE
         [c EXCEPT !.n = n.v, !.r = n.r, !.pc = IF n.v > 0 THEN "field" ELSE "methods_count"]])
    [] c.pc = "field" ->
         Bind([f \in {parse_field(c.r, c.constant_pool)} |-> IF ~f.ok THEN Return(c, f) ELSE
         [c EXCEPT !.fields = Append(c.fields, f.v), !.n = c.n - 1, !.r = Turn(c.r, f.r),
                   !.pc = IF c.n - 1 > 0 THEN "field" ELSE "methods_count"]])
    [] c.pc = "methods_count" ->
         Bind([n \in {read_u2(c.r)} |-> IF ~n.ok THEN Return(c, n) ELSE
         [c EXCEPT !.n = n.v, !.r = n.r, !.pc = IF n.v > 0 THEN "method" ELSE "attributes"]])
    [] c.pc = "method" ->
         Bind([m \in {parse_method(c.r, c.constant_pool)} |-> IF ~m.ok THEN Return(c, m) ELSE
         [c EXCEPT !.methods = Append(c.methods, m.v), !.n = c.n - 1, !.r = Turn(c.r, m.r),
                   !.pc = IF c.n - 1 > 0 THEN "method" ELSE "attributes"]])
    [] c.pc = "attributes" ->
         Bind([attributes \in {parse_attributes(c.r, c.constant_pool)} |->
           IF ~attributes.ok THEN Return(c, attributes) ELSE
         Return(c,
           Ok([minor_version |-> c.minor_version, major_version |-> c.major_version,
               constant_pool |-> c.constant_pool, access_flags |-> c.access_flags,
               this_class |-> c.this_class, super_class |-> c.super_class,
               interfaces |-> c.interfaces, fields |-> c.fields, methods |-> c.methods,
               attributes |-> attributes.v], attributes.r))])

\* One Reader used by every call.
reader_of_first_call(t) == 1

\* The Reader a call reads through: its own local r.
reader_of(t) == t

\* The buffers given to the calls: the benchmark's class, a class with a
\* method holding Code, one with a field, one with a Long and a Double in
\* the pool, and four that fail (attribute too long, buffer cut short,
\* invalid tag, wrong magic).
ConcBufs ==
  {build_min_class(0, 52, <<84, 101, 115, 116>>, <<65>>, 33, 3, 4),
   AttrFile("method", KnownName.Code, WellFormed.Code[1], 0),
   AttrFile("field", KnownName.ConstantValue, WellFormed.ConstantValue[1], 0),
   PoolFile(6, <<CanonEntry(5), CanonEntry(1), CanonEntry(6)>>),
   AttrFile("class", KnownName.NestHost, WellFormed.NestHost[1], 1),
   SubSeq(AttrFile("code", KnownName.LineNumberTable, WellFormed.LineNumberTable[1], 0), 1, 125),
   PoolFile(3, <<CanonEntry(7), CanonEntry(2)>>),
   <<202, 254, 186, 0>> \o SubSeq(PoolFile(1, <<>>), 5, 24)}

ConcInit ==
  /\ calls \in [Threads -> {Call0(b) : b \in ConcBufs}]
  /\ cur = NotRun
  /\ last = NotRun
  /\ inp = NotRun
  /\ bytes = <<>>
  /\ outcome = NotRun
  /\ lookup = NotRun

\* The call t executes its next statement.
Step(t) ==
  /\ calls[t].pc # "done"
  /\ \E c \in {StepOf([calls[t] EXCEPT !.r = calls[reader_of(t)].r])} :
       calls' = [[calls EXCEPT ![reader_of(t)].r = c.r] EXCEPT ![t] = c]
  /\ UNCHANGED <<cur, last, inp, bytes, outcome, lookup>>

ConcNext == \E t \in Threads : Step(t)

ConcSpec == ConcInit /\ [][ConcNext]_vars

(***************************************************************************)
(* Properties of the Reader (checked under ReaderSpec)                     *)
(***************************************************************************)

\* C1: whatever reads are called on a Reader, its position stays in
\* 0..=len, no byte at an offset >= len is touched (no read indexes past the
\* end, the highest offset read is at most len), and a read asking for more
\* than remaining() returns UnexpectedEof and reads nothing, while a read
\* asking for no more than remaining() succeeds and advances by what it asked.
C1_ReaderStaysInBounds ==
  /\ cur.pos \in 0..Len(cur.data.b)
  /\ cur.gh.hw <= Len(cur.data.b)
  /\ ~cur.gh.fault
  /\ last # NotRun =>
       IF last.req > last.rem
       THEN /\ last.res = ErrV(UnexpectedEof)
            /\ cur.pos = last.pos
            /\ cur.gh.hw = last.hw
       ELSE /\ last.res.ok
            /\ cur.pos = last.pos + last.req

\* A read_u4 in the middle of a buffer with fewer than four bytes left comes
\* back UnexpectedEof.
C1_Witness ==
  /\ last # NotRun
  /\ last.op = "read_u4"
  /\ last.pos > 0
  /\ last.rem \in 1..3
  /\ last.res = ErrV(UnexpectedEof)

\* C29: a read that fails with UnexpectedEof leaves the Reader as it was:
\* its position and remaining() are what they were before the read_u1,
\* read_u2, read_u4 or read_bytes; a read that succeeds moves the position
\* on by exactly the number of bytes asked for, so remaining() goes down by
\* as much, and changes nothing else: the buffer the Reader is over is the
\* same after every read.
C29_FailedReadLeavesReader ==
  last # NotRun =>
    /\ cur.data = last.data
    /\ IF last.res.ok
       THEN /\ cur.pos = last.pos + last.req
            /\ remaining(cur) = last.rem - last.req
       ELSE /\ last.res = ErrV(UnexpectedEof)
            /\ cur.pos = last.pos
            /\ remaining(cur) = last.rem

\* A read_u4 with one to three bytes left, after a read that succeeded,
\* failed and left the position where it was.
C29_Witness ==
  /\ last # NotRun
  /\ last.op = "read_u4" /\ last.res = ErrV(UnexpectedEof)
  /\ last.pos > 0 /\ last.rem \in 1..3
  /\ cur.pos = last.pos /\ remaining(cur) = last.rem

\* A read_bytes of two bytes in the middle of a buffer succeeded and moved
\* the position on by two.
C29_WitnessAdvance ==
  /\ last # NotRun
  /\ last.op = "read_bytes" /\ last.req = 2 /\ last.res.ok
  /\ last.pos = 1 /\ cur.pos = 3
  /\ remaining(cur) = last.rem - 2
  /\ remaining(cur) > 0

(***************************************************************************)
(* Properties of ClassFile::parse and the pool lookups (checked under Spec)*)
(***************************************************************************)
Parsed == outcome # NotRun

Failed == Parsed /\ ~outcome.ok

\* An input with one attribute of a known, fixed-grammar name.
FixedAttr == inp.fam = "attr" /\ inp.key \in FixedNames

\* C2: an attribute with a known fixed-grammar name, declared at least one
\* byte longer than its body encodes, with all the declared bytes present,
\* makes the whole decode fail with InvalidAttribute(name), name being the
\* attribute's resolved name; at class, field, method, Code and Record level.
C2_LongerLengthIsInvalidAttribute ==
  (Parsed /\ FixedAttr /\ inp.delta >= 1) =>
    ~outcome.ok /\ outcome.e = InvalidAttribute(inp.name)

\* A StackMapTable inside Code declared one byte too long was rejected under
\* its own name.
C2_Witness ==
  /\ Failed
  /\ FixedAttr /\ inp.key = "StackMapTable" /\ inp.level = "code" /\ inp.delta = 1
  /\ outcome.e = InvalidAttribute(KnownName.StackMapTable)

\* C3: an attribute declared one byte shorter than its body encodes makes
\* the decode fail with InvalidAttribute naming that attribute.
C3_ShorterLengthIsInvalidAttribute ==
  (Parsed /\ FixedAttr /\ inp.delta = -1) =>
    ~outcome.ok /\ outcome.e = InvalidAttribute(inp.name)

\* The slot of the k-th entry written to the input: 1 + the widths of the
\* entries before it (2 for Long and Double, 1 otherwise).
Slot(k) == 1 + Widths(SubSeq(inp.pool, 1, k - 1))

\* The entries written that the declared count lets the decoder read.
Read == {k \in 1..Len(inp.pool) : Slot(k) < inp.count}

Wide == {k \in Read : inp.pool[k].t \in {5, 6}}

Holes == {Slot(k) + 1 : k \in Wide}

\* C4: in every decoded pool the k-th input entry is stored at slot
\* 1 + (sum of the widths of the entries before it); a Long or Double at slot
\* i leaves slot i+1 a hole, which get(i+1) answers with
\* InvalidConstantPoolIndex(i+1), and the next entry is at i+2.
C4_DoubleSlotLayout ==
  /\ Decoded =>
       \A k \in Read :
         /\ entries_get(outcome.v.constant_pool.entries, Slot(k)) = Some(inp.pool[k].x)
         /\ k \in Wide =>
              /\ entries_get(outcome.v.constant_pool.entries, Slot(k) + 1) = None
              /\ get(outcome.v.constant_pool, Slot(k) + 1)
                   = ErrV(InvalidConstantPoolIndex(Slot(k) + 1))
  /\ (lookup # NotRun /\ lookup.op = "get" /\ lookup.index \in Holes) =>
       lookup.res = ErrV(InvalidConstantPoolIndex(lookup.index))

\* A decoded pool with a Double then a Long then a Class, at slots 1, 3 and
\* 5, and get(4), the Long's hole, has been called.
C4_Witness ==
  /\ Decoded
  /\ inp.fam = "pool" /\ Len(inp.pool) = 3 /\ inp.count = 6
  /\ inp.pool[1].t = 6 /\ inp.pool[2].t = 5 /\ inp.pool[3].t = 7
  /\ Read = {1, 2, 3} /\ Slot(3) = 5
  /\ lookup # NotRun /\ lookup.op = "get" /\ lookup.index = 4
  /\ lookup.res = ErrV(InvalidConstantPoolIndex(4))

\* The input entries the decoder stored at slot index (none or one).
At(index) == {k \in Read : Slot(k) = index}

EntryAt(index) == inp.pool[CHOOSE k \in At(index) : TRUE].x

\* C5: on a decoded pool with declared count c, get(index) fails with
\* InvalidConstantPoolIndex(index) for index 0, for index >= c and for a
\* double-slot hole, and otherwise returns the entry decoded at that slot;
\* get_utf8(index) returns the string exactly when that entry is a Utf8 and
\* fails with InvalidConstantPoolIndex(index) otherwise.
C5_LookupContract ==
  lookup # NotRun =>
    /\ (lookup.index = 0 \/ lookup.index >= inp.count \/ lookup.index \in Holes) =>
         /\ At(lookup.index) = {}
         /\ lookup.res = ErrV(InvalidConstantPoolIndex(lookup.index))
    /\ lookup.op = "get" =>
         lookup.res = IF At(lookup.index) # {} THEN OkV(EntryAt(lookup.index))
                      ELSE ErrV(InvalidConstantPoolIndex(lookup.index))
    /\ lookup.op = "get_utf8" =>
         lookup.res = IF At(lookup.index) # {} /\ EntryAt(lookup.index).tag = "Utf8"
                      THEN OkV(EntryAt(lookup.index).s)
                      ELSE ErrV(InvalidConstantPoolIndex(lookup.index))
    /\ (At(lookup.index) = {}) =
         (lookup.index = 0 \/ lookup.index >= inp.count \/ lookup.index \in Holes)

\* get(c) on a pool whose last entry is a Long in slot c-1 failed.
C5_Witness ==
  /\ lookup # NotRun /\ lookup.op = "get"
  /\ inp.fam = "pool" /\ Len(inp.pool) = 2
  /\ inp.pool[2].t = 5 /\ Slot(2) = inp.count - 1
  /\ lookup.index = inp.count
  /\ lookup.res = ErrV(InvalidConstantPoolIndex(inp.count))

\* get_utf8 on a Class entry failed although get on it succeeds.
C5_WitnessNotUtf8 ==
  /\ lookup # NotRun /\ lookup.op = "get_utf8"
  /\ At(lookup.index) # {} /\ EntryAt(lookup.index).tag = "Class"
  /\ lookup.res = ErrV(InvalidConstantPoolIndex(lookup.index))

\* The first four bytes of the buffer read big-endian.
FirstFour == U32(bytes[1] * 256 + bytes[2], bytes[3] * 256 + bytes[4])

WrongMagic == Len(bytes) >= 4 /\ FirstFour # U32(51966, 47806)

\* C6: on a buffer of at least four bytes whose first four, big-endian, are
\* a value v other than 0xCAFEBABE, ClassFile::parse fails with
\* InvalidMagic(v) and has read no byte past offset 3.
C6_InvalidMagicFirst ==
  (Parsed /\ WrongMagic) =>
    /\ ~outcome.ok
    /\ outcome.e = InvalidMagic(FirstFour)
    /\ outcome.gh.hw = 4

\* CA FE BA 00 before an otherwise complete class file was rejected with
\* InvalidMagic(0xCAFEBA00).
C6_Witness ==
  /\ Failed
  /\ Len(bytes) > 4
  /\ SubSeq(bytes, 1, 4) = <<202, 254, 186, 0>>
  /\ outcome.e = InvalidMagic(U32(51966, 47616))

\* The entries the decoder reaches whose tag is no constant kind.
Bad == {k \in Read : inp.pool[k].t \notin ValidTags}

FirstBad == CHOOSE k \in Bad : \A j \in Bad : k <= j

\* The offset of the tag byte of the k-th entry: after the magic, the
\* versions, the count and the entries before it.
TagOffset(k) == Len(Header) + Len(PoolBytes(inp.count, SubSeq(inp.pool, 1, k - 1)))

\* C7: a tag byte t that is no constant kind (0, 2, 13, 14, 21..255) makes
\* the whole decode fail with InvalidConstantPoolTag(t), t being the first
\* such tag; nothing is returned and no byte after that tag is read.
C7_InvalidTagAborts ==
  (Parsed /\ Bad # {}) =>
    /\ ~outcome.ok
    /\ "v" \notin DOMAIN outcome
    /\ outcome.e = InvalidConstantPoolTag(inp.pool[FirstBad].t)
    /\ outcome.gh.hw = TagOffset(FirstBad) + 1

\* Tag 14 after a Utf8 and a NameAndType entry was rejected at its offset.
C7_Witness ==
  /\ Failed
  /\ inp.fam = "tag" /\ Len(inp.pool) = 3 /\ Bad = {3}
  /\ inp.pool[3].t = 14
  /\ outcome.e = InvalidConstantPoolTag(14)
  /\ outcome.gh.hw = 20

ClassFileFields ==
  {"minor_version", "major_version", "constant_pool", "access_flags", "this_class",
   "super_class", "interfaces", "fields", "methods", "attributes"}

\* C8: ClassFile::parse is fail-fast.  Its outcome is either a ClassFile with
\* every field, reached without any read, lookup or sub-decoder failing, or
\* one error and no value: the error is the first failure that happened,
\* unchanged, and no read was started after it.
C8_FailFast ==
  Parsed =>
    IF outcome.ok
    THEN /\ DOMAIN outcome = {"status", "ok", "v", "gh"}
         /\ DOMAIN outcome.v = ClassFileFields
         /\ ~outcome.gh.failed
    ELSE /\ DOMAIN outcome = {"status", "ok", "e", "gh"}
         /\ outcome.gh.failed
         /\ outcome.e = outcome.gh.first
         /\ ~outcome.gh.late

\* An attribute nested in the Code attribute of a method ran out of bytes:
\* the decode stopped there, with bytes of the buffer left unread.
C8_Witness ==
  /\ Failed
  /\ FixedAttr /\ inp.level = "code" /\ inp.delta = -1
  /\ outcome.e = UnexpectedEof
  /\ outcome.gh.first = UnexpectedEof
  /\ outcome.gh.hw < Len(bytes)

\* A failed pool lookup (the attribute's name index) ended the decode.
C8_WitnessLookup ==
  /\ Failed
  /\ inp.fam = "mut"
  /\ outcome.e.kind = "InvalidConstantPoolIndex"
  /\ outcome.gh.hw < Len(bytes)

\* The constant_pool_count the buffer declares.
DeclaredCount == bytes[9] * 256 + bytes[10]

AttrDecoded ==
  CASE inp.level = "class" -> outcome.v.attributes[1]
    [] inp.level = "field" -> outcome.v.fields[1].attributes[1]
    [] inp.level = "method" -> outcome.v.methods[1].attributes[1]
    [] inp.level = "code" -> outcome.v.methods[1].attributes[1].code.attributes[1]
    [] inp.level = "record" -> outcome.v.attributes[1].components[1].attributes[1]

UnknownAttr == inp.fam = "attr" /\ inp.name \in UnknownNames

\* C10: an attribute whose resolved name is no known attribute name, with
\* its declared bytes present, decodes to Unknown{name, info}: name is the
\* resolved name and info exactly the declared payload, whatever the payload
\* holds; the decode does not fail.
C10_UnknownKeepsPayload ==
  (Parsed /\ UnknownAttr) =>
    /\ outcome.ok
    /\ AttrDecoded = [attr |-> "Unknown", name |-> inp.name, info |-> inp.body]

\* An attribute named "code" (not "Code") with a two-byte payload, nested in
\* a Code attribute, was kept as Unknown.
C10_Witness ==
  /\ Decoded
  /\ UnknownAttr /\ inp.level = "code"
  /\ inp.name = <<99, 111, 100, 101>> /\ inp.body = <<255, 0>>
  /\ AttrDecoded.attr = "Unknown" /\ AttrDecoded.info = <<255, 0>>

MinClass == inp.fam = "min"

\* C11: every well-formed minimal class file (valid magic, the pool
\* [Utf8 a, Utf8 b, Class -> 1, Class -> 2], no interface, field, method or
\* attribute) decodes; minor_version, major_version, access_flags, this_class
\* and super_class are the values written; the four lists are empty;
\* get_utf8(1) is the string a encodes and get(3) is Class{name_index: 1}.
C11_MinimalClassDecodes ==
  /\ (Parsed /\ MinClass) =>
       /\ outcome.ok
       /\ outcome.v.minor_version = inp.minor_version
       /\ outcome.v.major_version = inp.major_version
       /\ outcome.v.access_flags = inp.access_flags
       /\ outcome.v.this_class = inp.this_class
       /\ outcome.v.super_class = inp.super_class
       /\ outcome.v.interfaces = <<>>
       /\ outcome.v.fields = <<>>
       /\ outcome.v.methods = <<>>
       /\ outcome.v.attributes = <<>>
       /\ get_utf8(outcome.v.constant_pool, 1) = OkV(inp.pool[1].x.s)
       /\ get(outcome.v.constant_pool, 3) = OkV([tag |-> "Class", name_index |-> 1])
  /\ (lookup # NotRun /\ MinClass) =>
       /\ (lookup.op = "get_utf8" /\ lookup.index = 1) => lookup.res = OkV(inp.pool[1].x.s)
       /\ (lookup.op = "get" /\ lookup.index = 3) =>
            lookup.res = OkV([tag |-> "Class", name_index |-> 1])

\* The class of the benchmark with minor version 3 and this_class 258 was
\* decoded and get_utf8(1) answered "Test".
C11_Witness ==
  /\ Decoded /\ MinClass
  /\ outcome.v.minor_version = 3 /\ outcome.v.this_class = 258
  /\ lookup # NotRun /\ lookup.op = "get_utf8" /\ lookup.index = 1
  /\ lookup.res = OkV(<<84, 101, 115, 116>>)

OneFrame == inp.fam = "shape"

\* The frame the reference mapping gives for the frame written.
RefFrame ==
  LET f == inp.frame_type IN
  CASE f \in 0..63 -> [frame |-> "Same", offset_delta |-> f]
    [] f \in 64..127 ->
         [frame |-> "SameLocals1StackItem", offset_delta |-> f - 64, stack |-> inp.stack[1]]
    [] f = 247 ->
         [frame |-> "SameLocals1StackItemExtended", offset_delta |-> inp.offset_delta,
          stack |-> inp.stack[1]]
    [] f \in 248..250 -> [frame |-> "Chop", offset_delta |-> inp.offset_delta, k |-> 251 - f]
    [] f = 251 -> [frame |-> "SameExtended", offset_delta |-> inp.offset_delta]
    [] f \in 252..254 ->
         [frame |-> "Append", offset_delta |-> inp.offset_delta, locals |-> inp.locals]
    [] f = 255 ->
         [frame |-> "Full", offset_delta |-> inp.offset_delta, locals |-> inp.locals,
          stack |-> inp.stack]

\* C12: for every frame_type byte f the frame decoder agrees with the
\* reference mapping: 0..63 Same with offset_delta f; 64..127
\* SameLocals1StackItem with offset_delta f - 64 and one item; 128..246
\* rejected with InvalidAttribute; 247 SameLocals1StackItemExtended; 248..250
\* Chop with k = 251 - f; 251 SameExtended; 252..254 Append with exactly
\* f - 251 locals; 255 Full with two u2-counted lists.
C12_FrameTypeMapping ==
  (Parsed /\ OneFrame) =>
    IF inp.frame_type \in 128..246
    THEN ~outcome.ok /\ outcome.e = InvalidAttribute(KnownName.StackMapTable)
    ELSE /\ outcome.ok
         /\ AttrDecoded = [attr |-> "StackMapTable", table |-> [entries |-> <<RefFrame>>]]
         /\ inp.frame_type \in 248..250 => AttrDecoded.table.entries[1].k \in 1..3
         /\ inp.frame_type \in 252..254 =>
              Len(AttrDecoded.table.entries[1].locals) = inp.frame_type - 251

\* frame_type 248 was decoded as Chop with k = 3.
C12_Witness ==
  /\ Decoded /\ OneFrame
  /\ inp.frame_type = 248 /\ inp.offset_delta = 258
  /\ AttrDecoded.table.entries[1] = [frame |-> "Chop", offset_delta |-> 258, k |-> 3]

NestedCode == inp.fam = "nested"

\* The names of the attributes that may only stand inside Code.
CodeOnly == {"LineNumberTable", "LocalVariableTable", "LocalVariableTypeTable", "StackMapTable"}

\* C13: for a method whose Code attribute is well formed, the attributes
\* nested in Code are recovered, in the order written, under Code.attributes
\* (decoded by the attribute decoder on Code's own bytes), and none of them
\* in the method's own attribute list, which holds Code and what follows it.
C13_NestedUnderCode ==
  (Parsed /\ NestedCode) =>
    /\ outcome.ok
    /\ Len(outcome.v.methods) = 1
    /\ outcome.v.methods[1].attributes =
         <<[attr |-> "Code",
            code |-> [max_stack |-> 1, max_locals |-> 1, code |-> <<177>>,
                      exception_table |-> <<>>, attributes |-> inp.nested]]>> \o inp.after
    /\ \A k \in 1..Len(outcome.v.methods[1].attributes) :
         outcome.v.methods[1].attributes[k].attr \notin CodeOnly
    /\ outcome.v.attributes = <<>>

\* A LineNumberTable, a StackMapTable and a LocalVariableTable, in that
\* order, were recovered under Code, and Deprecated after Code.
C13_Witness ==
  /\ Decoded /\ NestedCode
  /\ Len(inp.nested) = 3 /\ Len(inp.after) = 1
  /\ outcome.v.methods[1].attributes[1].code.attributes[1].attr = "LineNumberTable"
  /\ outcome.v.methods[1].attributes[1].code.attributes[2].attr = "StackMapTable"
  /\ outcome.v.methods[1].attributes[1].code.attributes[3].attr = "LocalVariableTable"
  /\ outcome.v.methods[1].attributes[2] = [attr |-> "Deprecated"]

RecordClass == inp.fam = "components"

\* C14: each component of a Record has its own attribute list decoded by
\* the attribute decoder on the Record's bytes: the attributes written in a
\* component are recovered under that component's attributes, and the next
\* component (or the end of the Record) is read from exactly where the
\* component's last attribute ended.
C14_RecordComponentAttributes ==
  (Parsed /\ RecordClass) =>
    /\ outcome.ok
    /\ outcome.v.attributes = <<[attr |-> "Record", components |-> inp.components]>>

\* A Record of two components, the first carrying a ConstantValue attribute
\* alone: it was recovered under the first component, and the second
\* component was read after it.
C14_Witness ==
  /\ Decoded /\ RecordClass
  /\ Len(inp.components) = 2
  /\ outcome.v.attributes[1].components[1].attributes = <<[attr |-> "ConstantValue", index |-> 7]>>
  /\ outcome.v.attributes[1].components[2].name_index = 9
  /\ outcome.v.attributes[1].components[2].attributes = <<[attr |-> "Deprecated"]>>

\* An input with one attribute of a known name and a well-formed body of
\* the declared length.
KnownAttr == inp.fam = "attr" /\ inp.key \in KnownNames /\ inp.delta = 0

\* C15: dispatch is by exact, case-sensitive match on the resolved name.
\* Each of the 33 known names with a well-formed body decodes to the
\* AttributeInfo variant of that name, never to Unknown or another variant,
\* at class, field, method, Code and Record-component level; a name that
\* differs from a known one in case or length ("code", "CODE", "Codes",
\* "Cod") decodes to Unknown.
C15_DispatchByExactName ==
  /\ Cardinality(KnownNames) = 33
  /\ (Parsed /\ KnownAttr) => (outcome.ok /\ AttrDecoded.attr = inp.key)
  /\ (Parsed /\ UnknownAttr) => (outcome.ok /\ AttrDecoded.attr = "Unknown")

\* A Signature attribute of a field was decoded as Signature.
C15_Witness ==
  /\ Decoded /\ KnownAttr
  /\ inp.key = "Signature" /\ inp.level = "field"
  /\ AttrDecoded = [attr |-> "Signature", index |-> 1]

Utf8Pool == inp # NotRun /\ inp.fam = "utf8"

\* C17: a Utf8 constant whose payload is not valid UTF-8 does not make the
\* decode fail: the entry is stored as a Utf8 string at its slot and the
\* next entry is at the next slot; an all-ASCII payload is stored unchanged;
\* and no decode of any input returns InvalidUtf8.
C17_InvalidUtf8Tolerated ==
  /\ (Parsed /\ ~outcome.ok) => outcome.e.kind # "InvalidUtf8"
  /\ (\A t \in DOMAIN calls : calls[t].pc = "done" /\ ~calls[t].result.ok =>
         calls[t].result.e.kind # "InvalidUtf8")
  /\ (Parsed /\ Utf8Pool) =>
       /\ outcome.ok
       /\ Len(outcome.v.constant_pool.entries) = 3
       /\ entries_get(outcome.v.constant_pool.entries, 1).some
       /\ entries_get(outcome.v.constant_pool.entries, 1).x.tag = "Utf8"
       /\ (\A k \in 1..Len(inp.payload) : inp.payload[k] < 128) =>
            entries_get(outcome.v.constant_pool.entries, 1).x.s = inp.payload
       /\ entries_get(outcome.v.constant_pool.entries, 2)
            = Some([tag |-> "Class", name_index |-> 1])

\* The payload 41 FF was stored as "A\u{FFFD}" in slot 1 and the Class
\* constant after it in slot 2.
C17_Witness ==
  /\ Decoded /\ Utf8Pool
  /\ inp.payload = <<65, 255>>
  /\ entries_get(outcome.v.constant_pool.entries, 1) = Some([tag |-> "Utf8", s |-> <<65, 65533>>])
  /\ entries_get(outcome.v.constant_pool.entries, 2) = Some([tag |-> "Class", name_index |-> 1])

BadName == inp # NotRun /\ inp.fam = "badname"

\* C18: an attribute whose name_index resolves to no Utf8 constant makes the
\* decode fail with InvalidConstantPoolIndex(name_index), whatever bytes, or
\* lack of bytes, follow the name_index (the name is resolved before the
\* length is read).
C18_NameResolvedBeforeLength ==
  (Parsed /\ BadName) =>
    ~outcome.ok /\ outcome.e = InvalidConstantPoolIndex(inp.name_index)

\* With the four bytes of the length present the unresolved name is what
\* the decode reports, whether or not the payload is there.
C18_LengthPresent ==
  (Parsed /\ BadName /\ Len(inp.after) >= 4) =>
    ~outcome.ok /\ outcome.e = InvalidConstantPoolIndex(inp.name_index)

\* With fewer than four bytes after the name_index the decode reports the
\* end of the buffer.
C18_LengthMissing ==
  (Parsed /\ BadName /\ Len(inp.after) < 4) => ~outcome.ok /\ outcome.e = UnexpectedEof

\* The offset of the name_index of the Code attribute of a nesting input.
CodeStart == Len(Header \o PoolBytes(11, NestPool) \o ClassHead \o u2(0) \o u2(1) \o Member \o u2(1))

RECURSIVE Sum(_)
Sum(ns) == IF ns = <<>> THEN 0 ELSE Head(ns) + Sum(Tail(ns))

\* The offset at which the k-th attribute nested in Code is declared to
\* start: after Code's header, its fields up to the nested count, and the
\* attributes before it with their declared lengths.
NestedStart(k) ==
  CodeStart + 6 + Len(CodeBody(<<>>)) + Sum([j \in 1..(k - 1) |-> 6 + inp.lengths[j]])

\* C19: every attribute that decodes, of any kind and at any depth, moves
\* the enclosing reader on by exactly 6 + length bytes from its name_index;
\* while its body is decoded (nested attribute lists included) no byte
\* outside its length-byte payload is read; so in a list each attribute
\* starts where the declared lengths of those before it say.
C19_AttributeWindow ==
  Parsed =>
    /\ ~outcome.gh.outside
    /\ \A i \in 1..Len(outcome.gh.log) :
         outcome.gh.log[i].next = outcome.gh.log[i].start + 6 + outcome.gh.log[i].length
    /\ (NestedCode /\ outcome.ok) =>
         /\ Len(outcome.gh.log) = Len(inp.nested) + 1 + Len(inp.after)
         /\ \A k \in 1..Len(inp.nested) :
              /\ outcome.gh.log[k].start = NestedStart(k)
              /\ outcome.gh.log[k].length = inp.lengths[k]
              /\ outcome.gh.log[k].depth = 2

\* Three attributes nested in Code were decoded one after the other, the
\* third starting where the lengths of the first two put it.
C19_Witness ==
  /\ Decoded /\ NestedCode
  /\ Len(inp.nested) = 3 /\ inp.lengths = <<6, 2, 12>>
  /\ outcome.gh.log[3].start = NestedStart(3)
  /\ outcome.gh.log[3].start = outcome.gh.log[1].start + 6 + 6 + 6 + 2
  /\ outcome.gh.log[3].next = outcome.gh.log[3].start + 18
  /\ outcome.gh.log[4].depth = 1

\* An input with one Synthetic or Deprecated attribute.
MarkerAttr == inp # NotRun /\ inp.fam = "attr" /\ inp.key \in {"Synthetic", "Deprecated"}

\* C20: a Synthetic or Deprecated attribute decodes exactly when its
\* declared length is 0; declared one or more bytes long, with the bytes
\* present, the decode fails with InvalidAttribute carrying that
\* attribute's name.
C20_MarkerAttributesAreEmpty ==
  (Parsed /\ MarkerAttr) =>
    /\ outcome.ok <=> (Len(inp.body) + inp.delta = 0)
    /\ outcome.ok => AttrDecoded = [attr |-> inp.key]
    /\ (Len(inp.body) + inp.delta >= 1) => (~outcome.ok /\ outcome.e = InvalidAttribute(inp.name))

\* A Deprecated attribute of a method declared two bytes long, both bytes
\* present, was rejected under its name.
C20_Witness ==
  /\ Failed /\ MarkerAttr
  /\ inp.key = "Deprecated" /\ inp.level = "method" /\ inp.delta = 2
  /\ outcome.e = InvalidAttribute(KnownName.Deprecated)

\* A Synthetic attribute of length 0 was decoded.
C20_WitnessEmpty ==
  /\ Decoded /\ MarkerAttr
  /\ inp.key = "Synthetic" /\ inp.delta = 0
  /\ AttrDecoded = [attr |-> "Synthetic"]

\* An input with one SourceDebugExtension attribute, every declared byte
\* present.
DebugExtension == inp.fam = "attr" /\ inp.key = "SourceDebugExtension" /\ inp.delta >= 0

\* C21: a SourceDebugExtension attribute with any declared length, 0
\* included, whose bytes are present decodes successfully, debug_extension
\* being exactly the declared payload bytes; no decode fails with
\* InvalidAttribute("SourceDebugExtension").
C21_DebugExtensionVerbatim ==
  /\ (Parsed /\ DebugExtension) =>
       /\ outcome.ok
       /\ AttrDecoded = [attr |-> "SourceDebugExtension",
                         debug_extension |-> inp.body \o Fill(inp.delta)]
  /\ Failed => outcome.e # InvalidAttribute(KnownName.SourceDebugExtension)

\* A SourceDebugExtension of a record component declared 0 bytes long was
\* decoded to an empty debug_extension.
C21_Witness ==
  /\ Decoded
  /\ DebugExtension /\ inp.level = "record" /\ inp.body = <<>> /\ inp.delta = 0
  /\ AttrDecoded = [attr |-> "SourceDebugExtension", debug_extension |-> <<>>]

\* A SourceDebugExtension declared seven bytes long kept all seven.
C21_WitnessLong ==
  /\ Decoded
  /\ DebugExtension /\ inp.level = "code" /\ inp.delta = 2
  /\ AttrDecoded.debug_extension = <<100, 101, 98, 117, 103, 165, 165>>

ElementInput == inp.fam = "element"

\* B C D F I J S Z s, e, c, @ and [
ElementTags == {66, 67, 68, 70, 73, 74, 83, 90, 115} \cup {101, 99, 64, 91}

\* The ElementValue the bytes ElementBytes(t, x) stand for.
ElementOf(t, x) ==
  CASE t \in {66, 67, 68, 70, 73, 74, 83, 90, 115} ->
         [ev |-> "Const", tag |-> t, const_value_index |-> x]
    [] t = 101 -> [ev |-> "EnumConst", type_name_index |-> x, const_name_index |-> 65535 - x]
    [] t = 99 -> [ev |-> "ClassInfo", class_info_index |-> x]
    [] t = 64 ->
         [ev |-> "AnnotationValue",
          annotation |->
            [type_index |-> x,
             element_value_pairs |->
               <<[element_name_index |-> 65535 - x,
                  value |-> [ev |-> "Const", tag |-> 115, const_value_index |-> x]]>>]]
    [] t = 91 ->
         [ev |-> "ArrayValue",
          values |-> <<[ev |-> "Const", tag |-> 73, const_value_index |-> x],
                       [ev |-> "ClassInfo", class_info_index |-> 65535 - x]>>]

\* The ElementValue the bytes WrapBytes(wrap, ..) stand for, e being the one
\* wrapped.
WrapOf(wrap, e) ==
  CASE wrap = "top" -> e
    [] wrap = "array" ->
         [ev |-> "ArrayValue",
          values |-> <<[ev |-> "Const", tag |-> 90, const_value_index |-> 1], e>>]
    [] wrap = "pair" ->
         [ev |-> "AnnotationValue",
          annotation |-> [type_index |-> 7,
                          element_value_pairs |-> <<[element_name_index |-> 3, value |-> e]>>]]

\* C22: for every tag byte t the ElementValue decoder yields Const{t, u2}
\* for B C D F I J S Z s, EnumConst{u2, u2} for e, ClassInfo{u2} for c, a
\* recursively decoded Annotation for @ and a u2-counted list of recursively
\* decoded ElementValues for [; every other tag byte, at the top or nested
\* in an array or an annotation, fails with InvalidAttribute and aborts the
\* whole decode.
C22_ElementValueByTag ==
  (Parsed /\ ElementInput) =>
    IF inp.tag \in ElementTags
    THEN /\ outcome.ok
         /\ AttrDecoded = [attr |-> "AnnotationDefault",
                           default_value |-> WrapOf(inp.wrap, ElementOf(inp.tag, inp.operand))]
    ELSE /\ ~outcome.ok
         /\ outcome.e.kind = "InvalidAttribute"
         /\ "v" \notin DOMAIN outcome

\* An array ('[') nested in an array was decoded, its two values included.
C22_Witness ==
  /\ Decoded
  /\ ElementInput /\ inp.tag = 91 /\ inp.wrap = "array" /\ inp.operand = 258
  /\ AttrDecoded.default_value.values[2].values[2]
       = [ev |-> "ClassInfo", class_info_index |-> 65277]

\* The tag 'b' (not 'B') as the value of an annotation's pair aborted the decode.
C22_WitnessOtherTag ==
  /\ Failed
  /\ ElementInput /\ inp.tag = 98 /\ inp.wrap = "pair"
  /\ outcome.e.kind = "InvalidAttribute"

TargetInput == inp.fam = "target"

\* 0x00-0x01, 0x10-0x17, 0x40-0x4B
TargetTypes == (0..1) \cup (16..23) \cup (64..75)

\* The target_info the bytes TargetBytes(tt, x) stand for.
TargetOf(tt, x) ==
  CASE tt \in 0..1 -> [target |-> "TypeParameter", index |-> x % 256]
    [] tt = 16 -> [target |-> "Supertype", index |-> x]
    [] tt \in 17..18 ->
         [target |-> "TypeParameterBound", type_parameter_index |-> x % 256,
          bound_index |-> 255 - (x % 256)]
    [] tt \in 19..21 -> [target |-> "Empty"]
    [] tt = 22 -> [target |-> "FormalParameter", index |-> x % 256]
    [] tt = 23 -> [target |-> "Throws", index |-> x]
    [] tt \in 64..65 -> [target |-> "Localvar", table |-> << <<x, 1, 2>>, <<3, 4, 65535 - x>> >>]
    [] tt = 66 -> [target |-> "Catch", exception_table_index |-> x]
    [] tt \in 67..70 -> [target |-> "Offset", offset |-> x]
    [] tt \in 71..75 -> [target |-> "TypeArgument", offset |-> x, type_argument_index |-> x % 256]

\* C23: for every target_type byte t of a type annotation, target_info is
\* TypeParameter{u1} for 0x00-0x01, Supertype{u2} for 0x10,
\* TypeParameterBound{u1, u1} for 0x11-0x12, Empty with no byte read for
\* 0x13-0x15, FormalParameter{u1} for 0x16, Throws{u2} for 0x17, Localvar
\* with a u2-counted table of three u2 for 0x40-0x41, Catch{u2} for 0x42,
\* Offset{u2} for 0x43-0x46 and TypeArgument{u2, u1} for 0x47-0x4B; every
\* other value fails with InvalidAttribute.
C23_TargetInfoByType ==
  (Parsed /\ TargetInput) =>
    IF inp.target_type \in TargetTypes
    THEN /\ outcome.ok
         /\ AttrDecoded =
              [attr |-> inp.key,
               annotations |->
                 <<[target_type |-> inp.target_type,
                    target_info |-> TargetOf(inp.target_type, inp.operand),
                    target_path |-> <<[type_path_kind |-> 3, type_argument_index |-> 0]>>,
                    type_index |-> inp.operand,
                    element_value_pairs |-> <<>>]>>]
    ELSE /\ ~outcome.ok
         /\ outcome.e.kind = "InvalidAttribute"

\* A type annotation of target_type 0x15 was decoded with an Empty
\* target_info, the byte after the target_type being the path length.
C23_Witness ==
  /\ Decoded
  /\ TargetInput /\ inp.target_type = 21 /\ inp.operand = 65535
  /\ AttrDecoded.annotations[1].target_info = [target |-> "Empty"]
  /\ AttrDecoded.annotations[1].type_index = 65535

\* The target_type 0x4C, one past the last TypeArgument value, failed the decode.
C23_WitnessOtherType ==
  /\ Failed
  /\ TargetInput /\ inp.target_type = 76
  /\ outcome.e.kind = "InvalidAttribute"

IndexInput == inp.fam = "index"

\* The indexes read as the name_index of an attribute during the decode.
NameIndexes == {outcome.gh.names[k] : k \in 1..Len(outcome.gh.names)}

\* C24: the only constant-pool lookups made during ClassFile::parse resolve
\* the name_index of an attribute.  The decode does not fail whatever the
\* minor and major version, this_class, super_class, an interface index, a
\* field's or method's name_index and descriptor_index, an index held by a
\* pool entry or an index held by an attribute body are (0, a hole, an entry
\* of another kind, out of range): they are returned as read.  Every
\* InvalidConstantPoolIndex error carries the name_index of an attribute.
C24_OnlyAttributeNamesAreResolved ==
  /\ (Parsed /\ IndexInput) =>
       /\ outcome.ok
       /\ outcome.v.minor_version = inp.places.minor_version
       /\ outcome.v.major_version = inp.places.major_version
       /\ outcome.v.this_class = inp.places.this_class
       /\ outcome.v.super_class = inp.places.super_class
       /\ outcome.v.interfaces = << <<inp.places.interface>> >>
       /\ outcome.v.fields =
            <<[access_flags |-> 1, name_index |-> inp.places.field_name,
               descriptor_index |-> inp.places.field_descriptor,
               attributes |-> <<[attr |-> "ConstantValue",
                                 index |-> inp.places.constant_value]>>]>>
       /\ outcome.v.methods =
            <<[access_flags |-> 1, name_index |-> inp.places.method_name,
               descriptor_index |-> inp.places.method_descriptor,
               attributes |-> <<[attr |-> "ConstantValue", index |-> inp.places.method_value]>>]>>
       /\ get(outcome.v.constant_pool, 4)
            = OkV([tag |-> "Class", name_index |-> inp.places.class_name])
       /\ outcome.gh.looked = <<1, 1>>
  /\ Parsed =>
       /\ \A k \in 1..Len(outcome.gh.looked) : outcome.gh.looked[k] \in NameIndexes
       /\ (~outcome.ok /\ outcome.e.kind = "InvalidConstantPoolIndex") =>
            /\ outcome.gh.names # <<>>
            /\ outcome.e.index = outcome.gh.names[Len(outcome.gh.names)]
            /\ outcome.e.index = outcome.gh.looked[Len(outcome.gh.looked)]

\* A class whose versions and every index but the attribute names are 65535
\* was decoded.
C24_Witness ==
  /\ Decoded
  /\ IndexInput /\ \A p \in IndexPlaces : inp.places[p] = 65535
  /\ outcome.v.fields[1].name_index = 65535
  /\ outcome.v.this_class = 65535
  /\ outcome.gh.looked = <<1, 1>>

\* A decode failed with InvalidConstantPoolIndex carrying the name_index of
\* the attribute it had just read.
C24_WitnessNameIndex ==
  /\ Failed
  /\ outcome.e.kind = "InvalidConstantPoolIndex"
  /\ outcome.gh.names # <<>>
  /\ outcome.e.index = outcome.gh.names[Len(outcome.gh.names)]
  /\ outcome.e.index = 0

DeepInput == inp.fam = "deep"

\* C25: the decoder calls back into a function that is already running only
\* at Code -> nested attributes, Record component -> attributes and
\* ElementValue -> nested ElementValue or Annotation; each such descent
\* starts at a greater offset than the one around it (at least one byte is
\* consumed in between), so the number of descents open at once never
\* exceeds the number of bytes read, nor the length of the buffer.
C25_RecursionBoundedByInput ==
  Parsed =>
    /\ ~outcome.gh.stray
    /\ ~outcome.gh.stalled
    /\ outcome.gh.deep <= outcome.gh.hw
    /\ outcome.gh.deep <= Len(bytes)
    /\ outcome.ok => outcome.gh.rec = <<>>
    /\ DeepInput => outcome.gh.deep = Len(inp.shape)

\* A Code in a Record component in a Code was decoded: two descents deep
\* under the class's own attribute list, three with the outer Code.
C25_Witness ==
  /\ Decoded
  /\ DeepInput /\ inp.shape = <<"Code", "Record", "Code">>
  /\ outcome.gh.deep = 3
  /\ outcome.v.attributes[1].code.attributes[1].components[1].attributes[1].attr = "Code"

\* An array in an annotation in an array whose innermost value is missing:
\* the decode failed three descents deep.
C25_WitnessElement ==
  /\ Failed
  /\ DeepInput /\ inp.shape = <<"[", "@", "[">> /\ inp.leaf = <<>>
  /\ outcome.gh.deep = 3 /\ Len(outcome.gh.rec) = 8
  /\ outcome.e = UnexpectedEof

NumberInput == inp.fam = "number"

\* The entry decoded at slot index.
Constant(index) == get(outcome.v.constant_pool, index).v

\* C26: multi-byte values are assembled big-endian and reinterpreted modulo
\* 2^w.  read_u2 returns b0 * 2^8 + b1 and read_u4 returns
\* b0 * 2^24 + b1 * 2^16 + b2 * 2^8 + b3; a tag-3 Integer is that u4 taken as
\* a two's-complement i32; a tag-5 Long is (high u4) * 2^32 + (low u4) taken
\* as a two's-complement i64, the high word being the four bytes read first,
\* so it is negative exactly when the first byte is 0x80 or more.
C26_BigEndianTwosComplement ==
  (Decoded /\ NumberInput) =>
    /\ Constant(1) = [tag |-> "Class",
                      name_index |-> inp.two.b[1] * 256 + inp.two.b[2]]
    /\ Constant(1).name_index = inp.two.u
    /\ Constant(2).tag = "Float"
    /\ Constant(2).bits.hi = inp.four.b[1] * 256 + inp.four.b[2]
    /\ Constant(2).bits.lo = inp.four.b[3] * 256 + inp.four.b[4]
    /\ inp.four.u >= 0 =>
         Constant(2).bits = U32(inp.four.u \div 65536, inp.four.u % 65536)
    /\ Constant(3) = [tag |-> "Integer", value |-> inp.four.i]
    /\ (Constant(3).value < 0) = (inp.four.b[1] >= 128)
    /\ Constant(4) = [tag |-> "Long",
                      value |-> [negative |-> inp.eight.negative,
                                 magnitude |-> inp.eight.magnitude]]
    /\ Constant(4).value.negative = (inp.eight.b[1] >= 128)
    /\ ~Constant(4).value.negative =>
         Constant(4).value.magnitude =
           <<inp.eight.b[1] * 256 + inp.eight.b[2], inp.eight.b[3] * 256 + inp.eight.b[4],
             inp.eight.b[5] * 256 + inp.eight.b[6], inp.eight.b[7] * 256 + inp.eight.b[8]>>

\* FF FF FF FE 00 00 00 03 was decoded to the Long -(2^33 - 3), beside the
\* Integer -2^31.
C26_Witness ==
  /\ Decoded
  /\ NumberInput
  /\ inp.eight.b = <<255, 255, 255, 254, 0, 0, 0, 3>>
  /\ inp.four.b = <<128, 0, 0, 0>>
  /\ Constant(4).value = [negative |-> TRUE, magnitude |-> <<0, 1, 65535, 65533>>]
  /\ Constant(3).value = -2147483647 - 1

\* 00 00 00 01 00 00 00 02 was decoded to the Long 2^32 + 2: the first
\* four bytes are the high word.
C26_WitnessHighFirst ==
  /\ Decoded
  /\ NumberInput
  /\ inp.eight.b = <<0, 0, 0, 1, 0, 0, 0, 2>>
  /\ Constant(4).value = [negative |-> FALSE, magnitude |-> <<0, 1, 0, 2>>]

\* C27: a decode is a single forward pass that ends.  Every finished
\* iteration of every counted loop (constant pool, interfaces, fields,
\* methods, attributes and the lists inside attribute bodies) ends at a
\* greater offset than it started at, no read starts at a lower offset than
\* a read before it, and so the number of iterations of a decode, finished
\* or failed, is at most the number of bytes read and at most the length of
\* the buffer, whatever counts the buffer declares.
C27_DecodeTerminates ==
  Parsed =>
    /\ ~outcome.gh.idle
    /\ ~outcome.gh.back
    /\ outcome.gh.turns <= outcome.gh.hw
    /\ outcome.gh.turns <= Len(bytes)
    /\ outcome.gh.at <= Len(bytes)

\* A class was decoded with ten iterations or more, some of them in the
\* lists of an attribute body.
C27_Witness ==
  /\ Decoded
  /\ inp.fam = "attr" /\ inp.name = KnownName.Module
  /\ outcome.gh.turns >= 10
  /\ outcome.gh.turns < Len(bytes)

\* A class that declares 65535 interfaces and holds 24 bytes after the
\* count: after the one iteration of the pool the decode took the twelve u2
\* there are, each in an iteration of its own, and failed at the end of the
\* buffer.
C27_WitnessHugeCount ==
  /\ Failed
  /\ inp.fam = "counts" /\ inp.huge = "interfaces"
  /\ outcome.gh.turns = 13
  /\ outcome.gh.turns < Len(bytes)
  /\ outcome.gh.hw = Len(bytes)
  /\ outcome.e = UnexpectedEof

\* The input holds a tag no sub-grammar knows: a reserved frame_type in a
\* StackMapTable, an ElementValue tag that is none of the thirteen, or a
\* target_type outside the ranges of a type annotation.
UnrecognisedTag ==
  \/ OneFrame /\ inp.frame_type \in 128..246
  \/ ElementInput /\ inp.tag \notin ElementTags
  \/ TargetInput /\ inp.target_type \notin TargetTypes

\* C28: a decode that fails on a tag no sub-grammar knows (a frame_type, an
\* ElementValue tag, a target_type) fails with InvalidAttribute(name), name
\* being the resolved name of the attribute whose body was being decoded:
\* the name a length mismatch in that attribute would report.
C28_SubGrammarErrorNamesAttribute ==
  (Parsed /\ UnrecognisedTag) =>
    ~outcome.ok /\ outcome.e = InvalidAttribute(inp.name)

\* A reserved frame_type is reported under the name of its attribute, which
\* is the literal "StackMapTable" the attribute was dispatched on.
C28_FrameTypeNamesStackMapTable ==
  (Parsed /\ OneFrame /\ inp.frame_type \in 128..246) =>
    /\ ~outcome.ok /\ outcome.e = InvalidAttribute(inp.name)
    /\ inp.name = KnownName.StackMapTable

\* An unknown ElementValue tag is reported as InvalidAttribute("annotation")
\* and an unknown target_type as InvalidAttribute("type_annotation"),
\* whatever the attribute is called; neither is the name of an attribute.
C28_ElementAndTargetNameTheGrammar ==
  /\ (Parsed /\ ElementInput /\ inp.tag \notin ElementTags) =>
       /\ ~outcome.ok /\ outcome.e = InvalidAttribute(Str_annotation)
       /\ inp.name = KnownName.AnnotationDefault
  /\ (Parsed /\ TargetInput /\ inp.target_type \notin TargetTypes) =>
       /\ ~outcome.ok /\ outcome.e = InvalidAttribute(Str_type_annotation)
       /\ inp.name \in {KnownName[n] : n \in TypeAnnotationKeys}
  /\ \A n \in DOMAIN KnownName : KnownName[n] \notin {Str_annotation, Str_type_annotation}

\* An AnnotationDefault whose element value has the tag byte 0 failed with
\* InvalidAttribute("annotation").
C28_ElementCase ==
  /\ Failed
  /\ ElementInput /\ inp.tag = 0 /\ inp.wrap = "top"
  /\ outcome.e = InvalidAttribute(Str_annotation)
  /\ outcome.e # InvalidAttribute(inp.name)

TailInput == inp.fam = "tail"

\* C30: the decoder does not ask the buffer to end after the class
\* attributes.  Whatever bytes follow a buffer that decodes, the decode of
\* the longer buffer succeeds with the identical ClassFile, and reads no
\* byte of what was appended.
C30_TrailingBytesIgnored ==
  (Parsed /\ TailInput /\ ClassFile_parse(inp.base).ok) =>
    /\ outcome.ok
    /\ outcome.v = ClassFile_parse(inp.base).v
    /\ outcome.gh.hw = Len(inp.base)
    /\ outcome.gh.hw < Len(bytes)

\* A class with a SourceFile attribute followed by FF FF was decoded to
\* the class the buffer without the two bytes decodes to.
C30_Witness ==
  /\ Decoded
  /\ TailInput /\ inp.tail = <<255, 255>>
  /\ Len(outcome.v.attributes) = 1 /\ outcome.v.attributes[1].attr = "SourceFile"
  /\ outcome = Finished(ClassFile_parse(inp.base))
  /\ Len(bytes) = outcome.gh.hw + 2

\* A class with an interface, a field and a method followed by 00 00, which
\* read as attributes_count would declare no further attribute: decoded to
\* the same class.
C30_WitnessMembers ==
  /\ Decoded
  /\ TailInput /\ inp.tail = <<0, 0>>
  /\ Len(outcome.v.fields) = 1 /\ Len(outcome.v.methods) = 1
  /\ outcome.v = ClassFile_parse(inp.base).v

(***************************************************************************)
(* Properties of concurrent calls (checked under ConcSpec)                 *)
(***************************************************************************)

\* C16: two ClassFile::parse calls running at once on their own buffers,
\* however their steps interleave, each return what the call returns when it
\* runs alone on its buffer; a call's Reader stays a reader of its own
\* buffer.
C16_ConcurrentCallsIndependent ==
  \A t \in DOMAIN calls :
    /\ calls[t].r.data = Slice(calls[t].buf, 0)
    /\ calls[t].pc = "done" => calls[t].result = Finished(ClassFile_parse(calls[t].buf))

\* The second call has returned a class while the first, on another buffer,
\* was in the middle of its constant pool and then returned an error.
C16_Witness ==
  /\ DOMAIN calls = Threads
  /\ calls[1].buf # calls[2].buf
  /\ calls[2].pc = "done" /\ calls[2].result.ok
  /\ Len(calls[2].result.v.methods) = 1
  /\ calls[1].pc = "constant_pool_entry" /\ Len(calls[1].constant_pool.entries) = 3

\* Both calls have returned, one a class and the other InvalidAttribute.
C16_WitnessBothDone ==
  /\ DOMAIN calls = Threads
  /\ calls[1].pc = "done" /\ calls[2].pc = "done"
  /\ calls[1].result.ok
  /\ ~calls[2].result.ok /\ calls[2].result.e = InvalidAttribute(KnownName.NestHost)

====
